---- MODULE Spec2Model ----
(***************************************************************************)
(* Portalyze: the rubric engine (backend/app/services/rubric_engine.py)    *)
(* and the analysis coordinator (backend/app/services/analyzer.py,         *)
(* backend/app/main.py) as state machines.                                 *)
(*                                                                         *)
(* Strings are sequences of lexical tokens (each token a TLA+ string): a   *)
(* Python substring test is a test for a contiguous sub-sequence, a length *)
(* is the sum of the token lengths, lower() maps each token.  A document   *)
(* is a sequence of element nodes in document (pre-)order, each with the   *)
(* index of its parent (0 is the BeautifulSoup object); an element's own   *)
(* text comes before its child elements.                                   *)
(***************************************************************************)
EXTENDS Integers, Sequences, FiniteSets, TLC

VARIABLES
    doc,          \* the page: what the fetched html_content parses to
    url,          \* the source URL of the page
    pc,           \* position of the running handler
    fetched,      \* how the last fetch ended
    checklist,    \* the checklist of the evaluation in progress
    result,       \* what analyze returns
    status,       \* the HTTP status of the last /grade response
    cache,        \* the cache entry of the URL
    requests,     \* how many requests were answered
    found,        \* what the last locator / card detector call returned
    log,          \* ghost: what earlier steps of this run returned
    ai,           \* AIAnalyzer: the provider keys and the analyze call in progress
    batch,        \* /batch-grade: the items, the semaphore and the results
    gather,       \* analyze: what the three gathered analyses returned
    validation,   \* PortfolioValidator: the validation results and their scores
    db,           \* CacheService: the settings, the clock and the two tables
    calls         \* the PortfolioAnalyzer.analyze calls made so far

vars == <<doc, url, pc, fetched, checklist, result, status, cache, requests, found, log,
          ai, batch, gather, validation, db, calls>>

\* the variables of the rubric engine and of PortfolioAnalyzer.analyze
engine == <<doc, url, pc, fetched, checklist, result, status, cache, requests, found, log>>

\* the variables of the services beside them
services == <<ai, batch, gather, validation, db, calls>>

\* no analyze call of AIAnalyzer, no batch request, no gather and no
\* validation is under way, and the cache service is not in use
ServicesIdle ==
    /\ ai = <<>> /\ batch = <<>> /\ gather = <<>> /\ validation = <<>>
    /\ db = <<>> /\ calls = <<>>

-----------------------------------------------------------------------------
(* Python str operations on token sequences                                *)

RECURSIVE StrLen(_)
StrLen(s) ==
    IF Len(s) = 0 THEN 0
    ELSE IF Len(s) = 1 THEN Len(s[1])
    ELSE StrLen(SubSeq(s, 1, Len(s) \div 2))
         + StrLen(SubSeq(s, Len(s) \div 2 + 1, Len(s)))

Lower(t) ==
    CASE t = "About" -> "about"
      [] t = "Me" -> "me"
      [] t = "Project" -> "project"
      [] t = "Skill" -> "skill"
      [] t = "Contact" -> "contact"
      [] t = "Jane" -> "jane"
      [] t = "Doe" -> "doe"
      [] t = "React" -> "react"
      [] t = "GitHub" -> "github"
      [] t = "Live" -> "live"
      [] OTHER -> t

IsUpperInitial(t) ==
    t \in {"About", "Me", "Project", "Skill", "Contact", "Jane", "Doe",
           "React", "GitHub", "Live"}

IsSpace(t) == t \in {" ", "\n"}

LowerStr(s) == [i \in 1..Len(s) |-> Lower(s[i])]

\* sub in s
Contains(s, sub) ==
    \E i \in 0..(Len(s) - Len(sub)) : SubSeq(s, i + 1, i + Len(sub)) = sub

\* any(k in s for k in ks)
ContainsAny(s, ks) == \E k \in ks : Contains(s, k)

\* s.startswith(p)
StartsWith(s, p) == Len(p) <= Len(s) /\ SubSeq(s, 1, Len(p)) = p

\* s.strip()
Strip(s) ==
    LET between(keep) ==
            IF keep = {} THEN <<>>
            ELSE SubSeq(s, CHOOSE i \in keep : \A k \in keep : i <= k,
                           CHOOSE i \in keep : \A k \in keep : k <= i)
    IN between({i \in 1..Len(s) : ~IsSpace(s[i])})

\* s.split(): the maximal runs of non-space tokens
RECURSIVE SplitFrom(_, _, _)
SplitFrom(s, cur, acc) ==
    IF s = <<>> THEN (IF cur = <<>> THEN acc ELSE Append(acc, cur))
    ELSE IF IsSpace(Head(s))
         THEN SplitFrom(Tail(s), <<>>, IF cur = <<>> THEN acc ELSE Append(acc, cur))
         ELSE SplitFrom(Tail(s), Append(cur, Head(s)), acc)

Split(s) == SplitFrom(s, <<>>, <<>>)

\* s[:n]: the tokens that lie wholly within the first n characters
Take(s, n) ==
    SubSeq(s, 1, CHOOSE k \in 0..Len(s) :
                    /\ StrLen(SubSeq(s, 1, k)) <= n
                    /\ (k < Len(s) => StrLen(SubSeq(s, 1, k + 1)) > n))

\* list[:n]
FirstN(seq, n) == SubSeq(seq, 1, IF Len(seq) < n THEN Len(seq) ELSE n)

RECURSIVE Flatten(_)
Flatten(ss) ==
    IF Len(ss) = 0 THEN <<>>
    ELSE IF Len(ss) = 1 THEN ss[1]
    ELSE Flatten(SubSeq(ss, 1, Len(ss) \div 2))
         \o Flatten(SubSeq(ss, Len(ss) \div 2 + 1, Len(ss)))

Range(seq) == {seq[i] : i \in 1..Len(seq)}

\* the members of the set of indices S, as an ascending sequence
Ascending(S) ==
    [i \in 1..Cardinality(S) |-> CHOOSE x \in S : Cardinality({y \in S : y < x}) = i - 1]

\* a missing attribute (tag.get(name) is None)
Absent == <<"(absent)">>

Get(v, dflt) == IF v = Absent THEN dflt ELSE v

None == 0

-----------------------------------------------------------------------------
(* The parsed document (BeautifulSoup tree)                                *)

Node(tag, parent) ==
    [tag |-> tag, parent |-> parent, id |-> Absent, cls |-> <<>>,
     text |-> <<>>, href |-> Absent, target |-> Absent, alt |-> Absent,
     src |-> Absent, dsec |-> Absent, name |-> Absent]

Headings == {"h1", "h2", "h3", "h4", "h5", "h6"}

Min(S) == CHOOSE x \in S : \A y \in S : x <= y

\* soup.find(...): the first match in document order, or None
First(S) == IF S = {} THEN None ELSE Min(S)

\* the elements below c, what c.find_all(True) ranges over: in document
\* order they follow c up to the first element that hangs above c
Descendants(d, c) ==
    IF c = 0 THEN 1..Len(d)
    ELSE {j \in (c + 1)..Len(d) : \A k \in (c + 1)..j : d[k].parent >= c}

\* c.find_all(tags)
Tagged(d, c, tags) == {j \in Descendants(d, c) : d[j].tag \in tags}

\* c.children that are elements
Children(d, c) == {j \in 1..Len(d) : d[j].parent = c}

\* tag.find_parent(tags)
RECURSIVE FindParent(_, _, _)
FindParent(d, j, tags) ==
    IF j = 0 \/ d[j].parent = 0 THEN None
    ELSE IF d[d[j].parent].tag \in tags THEN d[j].parent
    ELSE FindParent(d, d[j].parent, tags)

\* the text pieces of c and of the elements below it, in document order;
\* the contents of style and script elements are not text
TextPieces(d, c) ==
    LET pieces(o) == [i \in 1..Len(o) |-> d[o[i]].text]
    IN pieces(Ascending({j \in (Descendants(d, c) \cup ({c} \ {0})) :
                            d[j].tag \notin {"style", "script"} /\ d[j].text # <<>>}))

\* c.get_text()
GetText(d, c) == Flatten(TextPieces(d, c))

\* c.get_text(strip=True): every piece stripped, empty pieces dropped
GetTextStrip(d, c) ==
    LET stripped(p) == Flatten([i \in 1..Len(p) |-> Strip(p[i])])
    IN stripped(TextPieces(d, c))

\* re.compile(kw, re.I).search(value) for a keyword without metacharacters
SearchI(value, kw) == Contains(LowerStr(value), kw)

\* class_=re.compile(kw, re.I): some class of the element matches
ClassSearchI(n, kws) == \E i \in 1..Len(n.cls) : \E k \in kws : SearchI(n.cls[i], k)

\* id=re.compile(kw, re.I)
IdSearchI(n, kws) == n.id # Absent /\ \E k \in kws : SearchI(n.id, k)

-----------------------------------------------------------------------------
(* RubricEngine.__init__: the keyword lists                                *)

tech_keywords ==
    { <<"react">>, <<"java", "script">>, <<"type", "script">>, <<"css">>,
      <<"html">>, <<"node">>, <<"express">>, <<"mongo">>, <<"mysql">>,
      <<"postgres">>, <<"tailwind">>, <<"chakra">>, <<"bootstrap">>,
      <<"material", "-", "ui">>, <<"redux">>, <<"next">>, <<"vite">>,
      <<"webpack">>, <<"sass">>, <<"vue">>, <<"angular">>, <<"python">>,
      <<"django">>, <<"flask">>, <<"java">>, <<"spring">>, <<"docker">>,
      <<"kubernetes">>, <<"aws">>, <<"azure">>, <<"gcp">> }

Labels == {"about", "projects", "skills", "contact"}

section_keywords ==
    [ about |->
        << <<"about">>, <<"about", "me">>, <<"about", "-", "me">>,
           <<"about", "_", "me">>, <<"bio">>, <<"bio", "graphy">>,
           <<"intro", "duction">>, <<"intro">>, <<"profile">>,
           <<"who", "am", "i">>, <<"who", "-", "am", "-", "i">> >>,
      projects |->
        << <<"project">>, <<"project", "s">>, <<"port", "folio">>, <<"work">>,
           <<"work", "s">>, <<"case">>, <<"case", "s">>, <<"show", "case">>,
           <<"my", "-", "work">>, <<"my", "work">>,
           <<"my", "-", "project", "s">> >>,
      skills |->
        << <<"skill">>, <<"skill", "s">>, <<"tech">>, <<"tech", "stack">>,
           <<"tech", "-", "stack">>, <<"stack">>, <<"expert", "ise">>,
           <<"tech", "nolog", "ies">>, <<"tech", "nolog", "y">>,
           <<"tool", "set">>, <<"abilit", "ies">> >>,
      contact |->
        << <<"contact">>, <<"contact", "s">>, <<"reach">>, <<"reach", "out">>,
           <<"reach", "-", "out">>, <<"connect">>, <<"get", "in", "touch">>,
           <<"get", "-", "in", "-", "touch">>, <<"social">>, <<"touch">>,
           <<"contact", "me">>, <<"contact", "-", "me">> >> ]

-----------------------------------------------------------------------------
(* RubricEngine._find_section: the six strategies                          *)

\* the first non-empty set of a sequence of match sets gives the result
FirstHit(sets) ==
    LET first(hits) == IF hits = {} THEN None ELSE Min(sets[Min(hits)])
    IN first({i \in 1..Len(sets) : sets[i] # {}})

\* Strategy 1: soup.find(id=keyword), keyword by keyword
StrategyExactId(d, kws) ==
    FirstHit([i \in 1..Len(kws) |-> {j \in 1..Len(d) : d[j].id = kws[i]}])

\* Strategy 2: soup.find(class_=keyword), keyword by keyword
StrategyExactClass(d, kws) ==
    FirstHit([i \in 1..Len(kws) |->
                {j \in 1..Len(d) : \E c \in 1..Len(d[j].cls) : d[j].cls[c] = kws[i]}])

\* Strategy 3: per keyword, id regex first, class regex second
StrategyRegex(d, kws) ==
    FirstHit([i \in 1..(2 * Len(kws)) |->
                LET kw == kws[(i + 1) \div 2]
                IN IF i % 2 = 1
                   THEN {j \in 1..Len(d) : IdSearchI(d[j], {kw})}
                   ELSE {j \in 1..Len(d) : ClassSearchI(d[j], {kw})}])

\* kw in heading_text or heading_text in kw, for some keyword
HeadingMatches(d, h, kws) ==
    LET matches(heading_text) ==
            \E i \in 1..Len(kws) :
                Contains(heading_text, kws[i]) \/ Contains(kws[i], heading_text)
    IN matches(LowerStr(GetTextStrip(d, h)))

\* Strategy 4: the first matching heading, or its container when the
\* container's text is more than twice as long as the heading's
StrategyHeading(d, kws) ==
    LET container(h, parent) ==
            IF parent # None
               /\ StrLen(GetTextStrip(d, parent)) > StrLen(GetTextStrip(d, h)) * 2
            THEN parent ELSE h
        of(h) == container(h, FindParent(d, h, {"section", "div", "article", "main"}))
        first(hs) == IF hs = {} THEN None ELSE of(Min(hs))
    IN first({h \in Tagged(d, 0, Headings) : HeadingMatches(d, h, kws)})

\* Strategy 5: soup.find(attrs={'data-section': keyword})
StrategyDataSection(d, kws) ==
    FirstHit([i \in 1..Len(kws) |-> {j \in 1..Len(d) : d[j].dsec = kws[i]}])

\* Strategy 6: a top-level container whose first 200 characters of text
\* hold a keyword
StrategyContent(d, kws) ==
    First({j \in Children(d, 0) :
              /\ d[j].tag \in {"section", "div", "article"}
              /\ ContainsAny(Take(LowerStr(GetText(d, j)), 200), Range(kws))})

Strategies == 1..6

Strategy(k, d, kws) ==
    CASE k = 1 -> StrategyExactId(d, kws)
      [] k = 2 -> StrategyExactClass(d, kws)
      [] k = 3 -> StrategyRegex(d, kws)
      [] k = 4 -> StrategyHeading(d, kws)
      [] k = 5 -> StrategyDataSection(d, kws)
      [] k = 6 -> StrategyContent(d, kws)

\* the heading strategy tried before the id and class strategies
HeadingFirstOrder == <<4, 1, 2, 3, 5, 6>>

\* the strategies in the order the code tries them
CascadeOrder == <<1, 2, 3, 4, 5, 6>>

RECURSIVE Cascade(_, _, _)
Cascade(order, d, kws) ==
    IF order = <<>> THEN None
    ELSE LET orNext(section) ==
                 IF section # None THEN section ELSE Cascade(Tail(order), d, kws)
         IN orNext(Strategy(Head(order), d, kws))

_find_section(d, kws) == Cascade(CascadeOrder, d, kws)

-----------------------------------------------------------------------------
(* RubricEngine._find_project_cards and _analyze_project_card              *)

\* the regex  a[-_]?b
OptSep(a, b) == { <<a, b>>, <<a, "-", b>>, <<a, "_", b>> }

class_patterns ==
    << OptSep("project", "card"), OptSep("project", "item"), { <<"project">> },
       { <<"card">> }, OptSep("portfolio", "item"), OptSep("work", "item"),
       OptSep("case", "study"), { <<"item">> }, OptSep("project", "box"),
       { <<"col">> } >>

has_heading(d, j) == Tagged(d, j, Headings) # {}

has_link(d, j) == \E a \in Tagged(d, j, {"a"}) : d[a].href # Absent

has_image(d, j) == Tagged(d, j, {"img"}) # {}

text_length(d, j) == StrLen(GetTextStrip(d, j))

\* tag.string: the single string below the tag, if there is exactly one
RECURSIVE NodeString(_, _)
NodeString(d, j) ==
    LET string(kids) ==
            IF kids = {} THEN (IF d[j].text = <<>> THEN Absent ELSE d[j].text)
            ELSE IF Cardinality(kids) = 1 /\ d[j].text = <<>>
                 THEN NodeString(d, Min(kids))
                 ELSE Absent
    IN string(Children(d, j))

\* parent.find(['button', 'a'], string=re.compile(r'demo|live|github|view', re.I))
has_button(d, j) ==
    LET named(string) ==
            /\ string # Absent
            /\ ContainsAny(LowerStr(string),
                           { <<"demo">>, <<"live">>, <<"github">>, <<"view">> })
    IN \E b \in Tagged(d, j, {"button", "a"}) : named(NodeString(d, b))

\* cards.append(x) for every x of seq that is not in seen_cards
RECURSIVE AppendNew(_, _)
AppendNew(cards, seq) ==
    IF seq = <<>> THEN cards
    ELSE IF Head(seq) \in Range(cards) THEN AppendNew(cards, Tail(seq))
    ELSE AppendNew(Append(cards, Head(seq)), Tail(seq))

\* Strategy 1: class patterns, pattern by pattern, each in document order
CardsByClass(d, c, cards) ==
    AppendNew(cards, Flatten([i \in 1..Len(class_patterns) |->
        Ascending({j \in Tagged(d, c, {"div", "article", "section", "li"}) :
                      /\ ClassSearchI(d[j], class_patterns[i])
                      /\ text_length(d, j) > 15
                      /\ (has_heading(d, j) \/ has_link(d, j) \/ has_image(d, j))})]))

\* Strategy 2: repeated structures, accepted only as a set of two or more
CardsByStructure(d, c, cards) ==
    LET sized(n) == n > 20 /\ n < 2000
        add(content_structures) ==
            IF Cardinality(content_structures) >= 2
            THEN AppendNew(cards, Ascending(content_structures))
            ELSE cards
    IN add({j \in Tagged(d, c, {"div", "article", "li"}) \ Range(cards) :
               /\ sized(text_length(d, j))
               /\ (has_image(d, j) \/ has_link(d, j) \/ has_heading(d, j))})

\* Strategy 3: the children of grid/flex containers with 2 to 10 children
CardsByGrid(d, c, cards) ==
    LET sized(n) == n >= 2 /\ n <= 10
        \* grid by grid in document order, the children of each in order
        inOrder(accepted, gs) ==
            AppendNew(cards, Flatten([i \in 1..Len(gs) |->
                                Ascending({j \in accepted : d[j].parent = gs[i]})]))
        children(grids) ==
            inOrder({j \in 1..Len(d) :
                        /\ d[j].parent \in grids
                        /\ sized(Cardinality(Children(d, d[j].parent)))
                        /\ has_link(d, j)
                        /\ text_length(d, j) > 30},
                    Ascending(grids))
    IN children({g \in Tagged(d, c, {"div", "section"}) :
                    ClassSearchI(d[g], { <<"grid">>, <<"flex">>, <<"row">>,
                                         <<"container">>, <<"col", "umns">> })})

\* Strategy 4: the container of every heading, with one more feature
CardsByHeading(d, c, cards) ==
    LET parentOf(h) == FindParent(d, h, {"div", "article", "section", "li", "figure"})
        sized(n) == n > 20 /\ n < 3000
        accepted(parent) ==
            /\ parent # None
            /\ sized(text_length(d, parent))
            /\ (has_link(d, parent) \/ has_image(d, parent) \/ has_button(d, parent))
        ok(h) == accepted(parentOf(h))
        parents(good) == [i \in 1..Len(good) |-> parentOf(good[i])]
    IN AppendNew(cards, parents(SelectSeq(Ascending(Tagged(d, c, Headings)), ok)))

deploy_link_regex ==
    { <<"github", ".", "com">>, <<"netlify">>, <<"vercel">>, <<"herokuapp">>,
      <<"render", ".", "com">>, <<"github", ".", "io">> }

\* Strategy 5: the container of every link to a code host or deployment
CardsByLink(d, c, cards) ==
    LET parentOf(a) == FindParent(d, a, {"div", "li", "article", "section"})
        accepted(parent) ==
            /\ parent # None
            /\ text_length(d, parent) > 20
            /\ (has_heading(d, parent) \/ has_image(d, parent))
        ok(a) == accepted(parentOf(a))
        parents(good) == [i \in 1..Len(good) |-> parentOf(good[i])]
    IN AppendNew(cards, parents(SelectSeq(
           Ascending({a \in Tagged(d, c, {"a"}) :
                        d[a].href # Absent
                        /\ ContainsAny(LowerStr(d[a].href), deploy_link_regex)}),
           ok)))

\* every card the five stages collected, before the cut; stages 2 to 5 run
\* only while fewer than two cards were found
CollectedCards(d, c) ==
    LET after4(cards) == IF Len(cards) >= 2 THEN cards ELSE CardsByLink(d, c, cards)
        after3(cards) ==
            IF Len(cards) >= 2 THEN cards ELSE after4(CardsByHeading(d, c, cards))
        after2(cards) ==
            IF Len(cards) >= 2 THEN cards ELSE after3(CardsByGrid(d, c, cards))
        after1(cards) ==
            IF Len(cards) >= 2 THEN cards ELSE after2(CardsByStructure(d, c, cards))
    IN after1(CardsByClass(d, c, <<>>))

\* the 10 of cards[:10]
CardLimit == 10

\* the whole list, without the cut
NoLimit(cards) == cards

\* return cards[:10]
Limit(cards) == FirstN(cards, CardLimit)

_find_project_cards(d, c) == Limit(CollectedCards(d, c))

\* a detail line of the checklist: the message and what is formatted into it
D(msg, n, s) == [msg |-> msg, n |-> n, s |-> s]

deployment_domains ==
    { <<"vercel", ".", "app">>, <<"netlify", ".", "app">>,
      <<"herokuapp", ".", "com">>, <<"render", ".", "com">>,
      <<"github", ".", "io">> }

_analyze_project_card(d, card, index) ==
    LET feedback(issues) ==
            D("Project {index}: ", index,
              IF issues # <<>> THEN issues ELSE <<"[PASS] Complete">>)
        analysis(image, github, deployed, tech) ==
            [has_image |-> image,
             has_description |-> text_length(d, card) > 50,
             has_github |-> github,
             has_deployed |-> deployed,
             has_tech_stack |-> tech,
             feedback |-> feedback(
                    (IF image THEN <<>> ELSE <<"missing image">>)
                 \o (IF github THEN <<>> ELSE <<"missing GitHub link">>)
                 \o (IF deployed THEN <<>> ELSE <<"missing deployed link">>)
                 \o (IF tech THEN <<>> ELSE <<"missing tech stack">>))]
        links(hrefs) ==
            analysis(has_image(d, card),
                     \E h \in hrefs : Contains(h, <<"github", ".", "com">>)
                                      /\ ~Contains(h, <<"/", "repos", "/">>),
                     \E h \in hrefs : ContainsAny(h, deployment_domains),
                     ContainsAny(LowerStr(GetText(d, card)), tech_keywords))
    IN links({d[a].href : a \in {x \in Tagged(d, card, {"a"}) : d[x].href # Absent}})

-----------------------------------------------------------------------------
(* RubricEngine._initialize_checklist and the checklist updates            *)

params ==
    << "about_section", "about_name", "about_photo", "about_intro",
       "about_professional_photo",
       "projects_section", "projects_minimum", "projects_samples",
       "projects_deployed", "projects_links", "projects_finished",
       "projects_summary", "projects_hero_image", "projects_tech_stack",
       "skills_section", "skills_highlighted",
       "contact_section", "contact_linkedin", "contact_github",
       "links_correct", "responsive_design", "professional_url",
       "grammar_checked", "single_page_navbar", "no_design_issues",
       "external_links_new_tab" >>

\* a checklist dict kept on the engine and handed out again by later calls
SharedChecklist ==
    IF DOMAIN checklist = {}
    THEN [param \in Range(params) |-> [pass |-> FALSE, details |-> <<>>]]
    ELSE checklist

_initialize_checklist == [param \in Range(params) |-> [pass |-> FALSE, details |-> <<>>]]

\* checklist[key]["pass"] = True; checklist[key]["details"].append(detail)
Passed(cl, key, detail) ==
    [cl EXCEPT ![key] = [pass |-> TRUE, details |-> Append(@.details, detail)]]

\* checklist[key]["details"].append(detail)
Detail(cl, key, detail) == [cl EXCEPT ![key].details = Append(@, detail)]

\* checklist[key]["pass"] = value
SetPass(cl, key, value) == [cl EXCEPT ![key].pass = value]

\* text[:n] + "..." if len(text) > n else text
Preview(text, n) == IF StrLen(text) > n THEN Take(text, n) \o <<"...">> ELSE text

-----------------------------------------------------------------------------
(* RubricEngine._evaluate_about_section                                    *)

\* 2 to 4 words, each starting with an upper-case letter
LooksLikeName(text) ==
    LET name(words) ==
            /\ 2 <= Len(words) /\ Len(words) <= 4
            /\ \A i \in 1..Len(words) : IsUpperInitial(words[i][1])
    IN name(Split(text))

AboutName(d, cl) ==
    LET name(hs) ==
            IF hs # {}
            THEN Passed(cl, "about_name",
                        D("[PASS] Name found: {text}", 0, GetTextStrip(d, Min(hs))))
            ELSE Detail(cl, "about_name", D("[FAIL] Name not clearly displayed", 0, <<>>))
    IN name({h \in Tagged(d, 0, {"h1", "h2"}) : LooksLikeName(GetTextStrip(d, h))})

section_names == << <<"header">>, <<"hero">>, <<"main">>, <<"banner">>, <<"intro">>, <<"top">> >>

\* the about section, then per name the first container whose class matches
\* and the first whose id matches
priority_sections(d, about_section) ==
    LET pick(x) == IF x = None THEN <<>> ELSE <<x>>
        sections(containers) ==
            <<about_section>>
            \o Flatten([i \in 1..Len(section_names) |->
                    pick(First({j \in containers : ClassSearchI(d[j], {section_names[i]})}))
                 \o pick(First({j \in containers : IdSearchI(d[j], {section_names[i]})}))])
    IN sections(Tagged(d, 0, {"header", "section", "div"}))

\* the images of the priority sections alone, the page never searched
priority_imgs_only(d, about_section) ==
    Flatten([i \in 1..Len(priority_sections(d, about_section)) |->
                Ascending(Tagged(d, priority_sections(d, about_section)[i], {"img"}))])

\* the images of the priority sections (an image occurs once per section
\* that holds it), or every image of the page
all_imgs(d, about_section) ==
    LET orPage(priority_imgs) ==
            IF priority_imgs # <<>> THEN priority_imgs ELSE Ascending(Tagged(d, 0, {"img"}))
        imgsOf(ps) == Flatten([i \in 1..Len(ps) |-> Ascending(Tagged(d, ps[i], {"img"}))])
    IN orPage(imgsOf(priority_sections(d, about_section)))

JoinClasses(cls) ==
    Flatten([i \in 1..Len(cls) |-> IF i = 1 THEN cls[i] ELSE <<" ">> \o cls[i]])

photo_score(d, img) ==
    LET score(alt, src, parent) ==
          (IF ContainsAny(alt, { <<"profile">>, <<"photo">>, <<"picture">>,
                                 <<"portrait">>, <<"avatar">>, <<"headshot">>,
                                 <<"me">>, <<"myself">>, <<"author">>, <<"face">> })
           THEN 3 ELSE 0)
        + (IF ContainsAny(src, { <<"profile">>, <<"photo">>, <<"avatar">>,
                                 <<"headshot">>, <<"portrait">>, <<"me">>,
                                 <<"about">>, <<"author">>, <<"person">>,
                                 <<"face">>, <<"user">> })
           THEN 2 ELSE 0)
        + (IF alt # <<>> /\ StrLen(alt) > 3 THEN 1 ELSE 0)
        + (IF parent # None
              /\ ContainsAny(LowerStr(JoinClasses(d[parent].cls)),
                             { <<"profile">>, <<"photo">>, <<"avatar">>,
                               <<"about">>, <<"hero">>, <<"author">> })
           THEN 2 ELSE 0)
        - (IF ContainsAny(alt \o src, { <<"icon">>, <<"logo">>, <<"decoration">>,
                                        <<"background">>, <<"banner">>, <<"pattern">> })
           THEN 3 ELSE 0)
        - (IF ContainsAny(alt \o src, { <<"project", "-">>, <<"work", "-">>,
                                        <<"portfolio", "-", "item">>, <<"screenshot">> })
           THEN 1 ELSE 0)
    IN score(LowerStr(Get(d[img].alt, <<>>)), LowerStr(Get(d[img].src, <<>>)),
             FindParent(d, img, {"div", "figure", "section"}))

\* profile_candidates.sort(key=score, reverse=True): stable
RECURSIVE SortByScore(_)
SortByScore(cands) ==
    IF cands = <<>> THEN <<>>
    ELSE LET first(best) ==
                 <<cands[best]>>
                 \o SortByScore(SubSeq(cands, 1, best - 1)
                                \o SubSeq(cands, best + 1, Len(cands)))
         IN first(Min({i \in 1..Len(cands) :
                          \A k \in 1..Len(cands) : cands[k].score <= cands[i].score}))

\* the score above which the best candidate is taken as it is
PhotoThreshold == -1

\* the image accepted as the profile photo, or None
best_img(d, about_section) ==
    LET choice(imgs, profile_candidates) ==
            LET pick(first3, usable) ==
                    IF usable # {} THEN first3[Min(usable)].img ELSE imgs[1]
                among(first3) ==
                    pick(first3,
                         {i \in 1..Len(first3) :
                             ~ContainsAny(LowerStr(Get(d[first3[i].img].src, <<>>)),
                                          { <<"project", "-", "screenshot">>,
                                            <<"work", "-", "sample">>,
                                            <<"case", "-", "study", "-", "img">> })})
            IN IF profile_candidates = <<>> THEN None
               ELSE IF profile_candidates[1].score > PhotoThreshold
                    THEN profile_candidates[1].img
               ELSE among(FirstN(profile_candidates, 3))
        scored(imgs) ==
            choice(imgs, SortByScore([i \in 1..Len(imgs) |->
                                        [score |-> photo_score(d, imgs[i]), img |-> imgs[i]]]))
    IN scored(all_imgs(d, about_section))

AboutPhoto(d, about_section, cl) ==
    LET searched(ps) == \E i \in 1..Len(ps) : Tagged(d, ps[i], {"img"}) # {}
        described(alt, cl1) ==
            IF ContainsAny(alt, { <<"profile">>, <<"photo">>, <<"picture">>,
                                  <<"portrait">>, <<"avatar">>, <<"headshot">> })
            THEN Passed(cl1, "about_professional_photo",
                        D("[PASS] Professional photo alt text detected", 0, <<>>))
            ELSE IF alt # <<>> /\ StrLen(alt) > 3
            THEN Passed(cl1, "about_professional_photo",
                        D("[PASS] Profile image found with description", 0, <<>>))
            ELSE Detail(cl1, "about_professional_photo",
                        D("[WARNING] Photo alt text could be more descriptive", 0, <<>>))
        photo(best) ==
            IF best = None
            THEN Detail(cl, "about_photo",
                        D("[FAIL] No photo found (searched {search_location})", 0,
                          IF searched(priority_sections(d, about_section))
                          THEN <<"priority sections">> ELSE <<"entire page">>))
            ELSE described(LowerStr(Get(d[best].alt, <<>>)),
                           Passed(cl, "about_photo",
                                  D("[PASS] Photo found: {src}", 0,
                                    Preview(Get(d[best].src, <<>>), 80))))
    IN photo(best_img(d, about_section))

AboutIntro(d, about_section, cl) ==
    LET intro(ps) ==
            IF ps # {}
            THEN Passed(cl, "about_intro",
                        D("[PASS] Introduction: {preview}", 0,
                          Preview(GetTextStrip(d, Min(ps)), 80)))
            ELSE Detail(cl, "about_intro",
                        D("[FAIL] No substantial introduction paragraph found", 0, <<>>))
    IN intro({p \in Tagged(d, about_section, {"p"}) : StrLen(GetTextStrip(d, p)) > 50})

\* the name check alone, with no `if about_section:` around it
about_unguarded(d, cl) == AboutName(d, cl)

_evaluate_about_section(d, cl) ==
    LET about(about_section) ==
            IF about_section # None
            THEN AboutIntro(d, about_section,
                   AboutPhoto(d, about_section,
                     AboutName(d,
                       Passed(cl, "about_section", D("[PASS] About section found", 0, <<>>)))))
            ELSE Detail(cl, "about_section", D("[FAIL] About section not found", 0, <<>>))
    IN about(_find_section(d, section_keywords.about))

-----------------------------------------------------------------------------
(* RubricEngine._evaluate_projects_section                                 *)

\* the 3 of `project_count >= 3`
MinProjects == 3

\* the flag holds of every card, and there is a card
EveryCard(analyses, flag) ==
    analyses # <<>> /\ \A i \in 1..Len(analyses) : analyses[i][flag]

\* has_x = True if card_analysis["has_x"] for some card
AnyCard(analyses, flag) == \E i \in 1..Len(analyses) : analyses[i][flag]

AppendAll(cl, key, details) == [cl EXCEPT ![key].details = @ \o details]

\* a flag's value and its summary message
Summary(entry, value, yes, no) ==
    [pass |-> value,
     details |-> Append(entry.details, D(IF value THEN yes ELSE no, 0, <<>>))]

ProjectsAggregate(cl, analyses) ==
    [cl EXCEPT
        !["projects_samples"] =
            [pass |-> Len(analyses) > 0,
             details |-> @.details \o [i \in 1..Len(analyses) |-> analyses[i].feedback]],
        !["projects_summary"].pass = AnyCard(analyses, "has_description"),
        !["projects_finished"].pass =
            AnyCard(analyses, "has_deployed") /\ AnyCard(analyses, "has_description"),
        !["projects_hero_image"] =
            Summary(@, AnyCard(analyses, "has_image"),
                    "[PASS] Projects have images", "[FAIL] Add images to projects"),
        !["projects_links"] =
            Summary(@, AnyCard(analyses, "has_github"),
                    "[PASS] GitHub links found", "[FAIL] Add GitHub repository links"),
        !["projects_deployed"] =
            Summary(@, AnyCard(analyses, "has_deployed"),
                    "[PASS] Deployed links found", "[FAIL] Add deployed/live links"),
        !["projects_tech_stack"] =
            Summary(@, AnyCard(analyses, "has_tech_stack"),
                    "[PASS] Tech stack mentioned", "[FAIL] List tech stack for projects")]

\* the per-card analyses of the detected cards, in card order
CardAnalyses(d, project_cards) ==
    SubSeq([i \in 1..Len(project_cards) |-> _analyze_project_card(d, project_cards[i], i)],
           1, Len(project_cards))

_evaluate_projects_section(d, cl) ==
    LET counted(project_cards, project_count) ==
            ProjectsAggregate(
                [cl EXCEPT
                    !["projects_section"] =
                        [pass |-> TRUE,
                         details |-> @.details
                            \o <<D("[PASS] Projects section found", 0, <<>>),
                                 D("Found {project_count} project card(s)", project_count, <<>>)>>],
                    !["projects_minimum"] =
                        IF project_count >= MinProjects
                        THEN [pass |-> TRUE,
                              details |-> Append(@.details,
                                  D("[PASS] Has {project_count} projects", project_count, <<>>))]
                        ELSE [@ EXCEPT !.details = Append(@,
                                  D("[FAIL] Only {project_count} project(s) found. Add at least {n} more.",
                                    MinProjects - project_count, <<>>))]],
                CardAnalyses(d, project_cards))
        cards(project_cards) == counted(project_cards, Len(project_cards))
        projects(projects_section) ==
            IF projects_section # None
            THEN cards(_find_project_cards(d, projects_section))
            ELSE Detail(cl, "projects_section",
                        D("[FAIL] Projects section not found", 0, <<>>))
    IN projects(_find_section(d, section_keywords.projects))

-----------------------------------------------------------------------------
(* RubricEngine._evaluate_skills_section                                   *)

\* class_=re.compile(r'badge|tag|chip|skill|tech'): case-sensitive
ClassSearch(n, kws) == \E i \in 1..Len(n.cls) : ContainsAny(n.cls[i], kws)

_evaluate_skills_section(d, cl) ==
    LET highlighted(has_icons, has_badges, has_tech_keywords, skill_items, has_list) ==
            LET has_multiple_items == Cardinality(skill_items) >= 3
                highlights == (IF has_icons THEN <<"icons">> ELSE <<>>)
                              \o (IF has_badges THEN <<"badges">> ELSE <<>>)
                              \o (IF has_tech_keywords THEN <<"tech keywords">> ELSE <<>>)
                              \o (IF has_multiple_items THEN <<"{n} skill items">> ELSE <<>>)
                              \o (IF has_list THEN <<"structured list">> ELSE <<>>)
                cl1 == Passed(cl, "skills_section",
                              D("[PASS] Skills section found", 0, <<>>))
            IN IF has_icons \/ has_badges \/ has_tech_keywords \/ has_multiple_items
                  \/ has_list
               THEN Passed(cl1, "skills_highlighted",
                           D("[PASS] Skills highlighted with {highlights}",
                             IF has_multiple_items THEN Cardinality(skill_items) ELSE 0,
                             highlights))
               ELSE Detail(cl1, "skills_highlighted",
                           D("[FAIL] Skills not visually highlighted. Consider adding icons or badges.",
                             0, <<>>))
        elem(section_elem) ==
            highlighted(
                Tagged(d, section_elem, {"svg", "i", "img"}) # {},
                \E j \in Descendants(d, section_elem) :
                    ClassSearch(d[j], { <<"badge">>, <<"tag">>, <<"chip">>,
                                        <<"skill">>, <<"tech">> }),
                ContainsAny(LowerStr(GetText(d, section_elem)), tech_keywords),
                {j \in Tagged(d, section_elem, {"li", "div", "span"}) :
                    ClassSearchI(d[j], { <<"skill">>, <<"tech">> })},
                Tagged(d, section_elem, {"ul", "ol"}) # {})
        skills(skills_section) ==
            IF skills_section = None
            THEN Detail(cl, "skills_section", D("[FAIL] Skills section not found", 0, <<>>))
            ELSE elem(skills_section)
    IN skills(_find_section(d, section_keywords.skills))

-----------------------------------------------------------------------------
(* RubricEngine._evaluate_contact_section                                  *)

\* soup.find_all('a', href=True) in document order
AllLinks(d) == Ascending({a \in Tagged(d, 0, {"a"}) : d[a].href # Absent})

_evaluate_contact_section(d, cl) ==
    LET links(all_links) ==
            LET contact_section == _find_section(d, section_keywords.contact)
                linkedin_found == \E i \in 1..Len(all_links) :
                    Contains(LowerStr(d[all_links[i]].href), <<"linkedin", ".", "com">>)
                github_found == \E i \in 1..Len(all_links) :
                    /\ Contains(LowerStr(d[all_links[i]].href), <<"github", ".", "com">>)
                    /\ ~Contains(LowerStr(d[all_links[i]].href), <<"/", "repos", "/">>)
                cl1 == IF contact_section # None
                       THEN Passed(cl, "contact_section",
                                   D("[PASS] Contact section found", 0, <<>>))
                       ELSE Detail(cl, "contact_section",
                                   D("[FAIL] Contact section not found", 0, <<>>))
                cl2 == IF linkedin_found
                       THEN Passed(cl1, "contact_linkedin",
                                   D("[PASS] LinkedIn profile link found", 0, <<>>))
                       ELSE Detail(cl1, "contact_linkedin",
                                   D("[FAIL] Add LinkedIn profile link", 0, <<>>))
            IN IF github_found
               THEN Passed(cl2, "contact_github",
                           D("[PASS] GitHub profile link found", 0, <<>>))
               ELSE Detail(cl2, "contact_github", D("[FAIL] Add GitHub profile link", 0, <<>>))
    IN links(AllLinks(d))

-----------------------------------------------------------------------------
(* urllib.parse.urlparse                                                   *)

\* the position of the first "://" token, or 0
SchemeEnd(s) == First({i \in 1..Len(s) : s[i] = "://"})

\* urlparse(s).scheme (lower-cased by urlparse)
UrlScheme(s) == IF SchemeEnd(s) = 0 THEN <<>> ELSE LowerStr(SubSeq(s, 1, SchemeEnd(s) - 1))

\* urlparse(s).netloc: from "//" to the next "/", "?" or "#"
UrlNetloc(s) ==
    LET upTo(b, ends) == SubSeq(s, b + 1, IF ends = {} THEN Len(s) ELSE Min(ends) - 1)
        from(b) ==
            IF b = 0 THEN <<>>
            ELSE upTo(b, {i \in (b + 1)..Len(s) : s[i] \in {"/", "?", "#"}})
    IN from(SchemeEnd(s))

\* urlsplit raises ValueError("Invalid IPv6 URL") on an unbalanced bracket
UrlparseRaises(s) ==
    LET unbalanced(n) == ("[" \in n) # ("]" \in n)
    IN unbalanced(Range(UrlNetloc(s)))

-----------------------------------------------------------------------------
(* RubricEngine._evaluate_technical                                        *)

\* how many offending links are listed before "... and N more"
MaxListed == 5

\* href is empty, or starts with javascript: or void
InvalidHref(href) ==
    \/ Strip(href) = <<>>
    \/ StartsWith(Strip(href), <<"java", "script", ":">>)
    \/ StartsWith(Strip(href), <<"void">>)

InvalidDisplay(d, a) ==
    LET display(href, link_text) ==
            D(IF link_text # <<>> THEN "'{href}' (text: {link_text})" ELSE "'{href}'", 0,
              (IF href = <<>> THEN <<"(empty)">> ELSE href) \o <<"|">> \o link_text)
    IN display(Strip(d[a].href), Take(GetTextStrip(d, a), 40))

\* every offending link listed, however many there are
ListedAll(displays) == displays

\* the lines "  * {link}" for the first 5 and "... and N more"
ListedLines(displays) ==
    [i \in 1..Len(FirstN(displays, MaxListed)) |-> displays[i]]
    \o (IF Len(displays) > MaxListed
        THEN <<D("... and {n} more", Len(displays) - MaxListed, <<>>)>> ELSE <<>>)

TechLinksCorrect(d, cl) ==
    LET report(invalid_links) ==
            IF Len(invalid_links) = 0
            THEN Passed(cl, "links_correct", D("[PASS] All links appear valid", 0, <<>>))
            ELSE IF Len(invalid_links) = 1
            THEN Detail(cl, "links_correct",
                        D("[WARNING] 1 link may be invalid: {link}", 0, invalid_links[1].s))
            ELSE AppendAll(cl, "links_correct",
                           <<D("[WARNING] {n} links may be invalid:", Len(invalid_links), <<>>)>>
                           \o ListedLines(invalid_links))
        displays(invalid) == report([i \in 1..Len(invalid) |-> InvalidDisplay(d, invalid[i])])
        links(all_links) ==
            IF all_links = <<>> THEN cl
            ELSE displays(SelectSeq(all_links, LAMBDA a : InvalidHref(d[a].href)))
    IN links(AllLinks(d))

\* l['href'].startswith(('http', 'https'))
IsHttpHref(href) == StartsWith(href, <<"http">>)

\* the anchors whose netloc differs from the page's
external_links(d, u) ==
    SelectSeq(AllLinks(d), LAMBDA a : IsHttpHref(d[a].href)
                                      /\ UrlNetloc(d[a].href) # UrlNetloc(u))

ExternalDisplay(d, a) ==
    LET display(href, link_text) ==
            D(IF link_text # <<>> THEN "'{href}' (text: {link_text})" ELSE "'{href}'", 0,
              href \o <<"|">> \o link_text)
    IN display(Preview(d[a].href, 60), Take(GetTextStrip(d, a), 30))

TechExternalLinks(d, u, cl) ==
    LET report(links_without_target) ==
            IF Len(links_without_target) = 0
            THEN Passed(cl, "external_links_new_tab",
                        D("[PASS] External links open in new tab", 0, <<>>))
            ELSE IF Len(links_without_target) = 1
            THEN Detail(cl, "external_links_new_tab",
                        D("[WARNING] 1 external link missing target='_blank': {display}", 0,
                          links_without_target[1].s))
            ELSE AppendAll(cl, "external_links_new_tab",
                           <<D("[WARNING] {n} external links missing target='_blank':",
                               Len(links_without_target), <<>>)>>
                           \o ListedLines(links_without_target))
        displays(without) == report([i \in 1..Len(without) |-> ExternalDisplay(d, without[i])])
        links(ext) ==
            IF ext = <<>> THEN cl
            ELSE displays(SelectSeq(ext, LAMBDA a : d[a].target # <<"_blank">>))
    IN links(external_links(d, u))

\* every string of the markup: what html_content holds besides the tags
RawStrings(d) ==
    UNION {{d[j].text, Get(d[j].id, <<>>), JoinClasses(d[j].cls), Get(d[j].href, <<>>),
            Get(d[j].target, <<>>), Get(d[j].alt, <<>>), Get(d[j].src, <<>>),
            Get(d[j].dsec, <<>>), Get(d[j].name, <<>>)} : j \in 1..Len(d)}

TechResponsive(d, cl) ==
    LET responsive_indicators ==
            \/ \E r \in RawStrings(d) : Contains(LowerStr(r), <<"@media">>)
            \/ \E r \in RawStrings(d) : Contains(LowerStr(r), <<"viewport">>)
            \/ \E j \in Tagged(d, 0, {"meta"}) : d[j].name = <<"viewport">>
            \/ \E r \in RawStrings(d) :
                  ContainsAny(r, { <<"sm:">>, <<"md:">>, <<"lg:">>, <<"xl:">>, <<"2xl:">> })
    IN IF responsive_indicators
       THEN Passed(cl, "responsive_design",
                   D("[PASS] Responsive design indicators found", 0, <<>>))
       ELSE Detail(cl, "responsive_design",
                   D("[FAIL] No responsive design indicators. Add media queries or responsive framework.",
                     0, <<>>))

is_professional(u) ==
    /\ UrlScheme(u) = <<"http", "s">>
    /\ ~StartsWith(UrlNetloc(u), <<"127.0.0.1">>)
    /\ ~StartsWith(UrlNetloc(u), <<"localhost">>)

TechProfessionalUrl(u, cl) ==
    IF is_professional(u)
    THEN Passed(cl, "professional_url", D("[PASS] Professional URL: {url}", 0, u))
    ELSE Detail(SetPass(cl, "professional_url", FALSE), "professional_url",
                D("[WARNING] Consider deploying to a professional URL (HTTPS)", 0, <<>>))

TechNavbar(d, cl) ==
    LET navbar(nav) ==
            IF nav # None /\ Tagged(d, nav, {"a"}) # {}
            THEN Passed(cl, "single_page_navbar",
                        D("[PASS] Navigation bar with {nav_links} link(s)",
                          Cardinality(Tagged(d, nav, {"a"})), <<>>))
            ELSE Detail(cl, "single_page_navbar",
                        D("[FAIL] Add navigation bar for better UX", 0, <<>>))
    IN navbar(First(Tagged(d, 0, {"nav", "header"})))

TechDesign(d, cl) ==
    LET checked(images, with_alt) ==
            IF images = {}
            THEN Passed(cl, "no_design_issues", D("No images to check", 0, <<>>))
            ELSE IF with_alt = images
            THEN Passed(cl, "no_design_issues", D("[PASS] All images have alt text", 0, <<>>))
            ELSE Detail(cl, "no_design_issues",
                        D("[WARNING] {missing} image(s) missing alt text (accessibility issue)",
                          Cardinality(images) - Cardinality(with_alt), <<>>))
        imgs(images) == checked(images, {i \in images : Get(d[i].alt, <<>>) # <<>>})
    IN imgs(Tagged(d, 0, {"img"}))

common_typos == << <<"teh">>, <<"recieve">>, <<"definately">>, <<"seperate">> >>

TechGrammar(d, cl) ==
    LET report(found_typos) ==
            IF found_typos = <<>>
            THEN Passed(cl, "grammar_checked", D("[PASS] No obvious typos detected", 0, <<>>))
            ELSE Detail(cl, "grammar_checked",
                        D("[WARNING] Possible typos found: {typos}", 0, Flatten(found_typos)))
        typos(text_content) ==
            report(SelectSeq(common_typos, LAMBDA t : Contains(text_content, t)))
    IN typos(LowerStr(GetText(d, 0)))

\* the technical pass raises when urlparse rejects the href of an http link
TechnicalRaises(d, u) ==
    \E a \in Range(AllLinks(d)) : IsHttpHref(d[a].href) /\ UrlparseRaises(d[a].href)

_evaluate_technical(d, u, cl) ==
    TechGrammar(d,
      TechDesign(d,
        TechNavbar(d,
          TechProfessionalUrl(u,
            TechResponsive(d,
              TechExternalLinks(d, u,
                TechLinksCorrect(d, cl)))))))

-----------------------------------------------------------------------------
(* RubricEngine.evaluate and PortfolioAnalyzer._run_rubric_analysis        *)

EmptyChecklist == [param \in {} |-> [pass |-> FALSE, details |-> <<>>]]

PassNames == <<"about", "projects", "skills", "contact", "technical">>

\* whether the pass raises on the document
PassRaises(p, d, u) == p = "technical" /\ TechnicalRaises(d, u)

\* the passes with the technical pass taking no_design_issues from what the
\* about pass left in about_photo
RunPassCoupled(p, d, u, cl) ==
    CASE p = "about" -> _evaluate_about_section(d, cl)
      [] p = "projects" -> _evaluate_projects_section(d, cl)
      [] p = "skills" -> _evaluate_skills_section(d, cl)
      [] p = "contact" -> _evaluate_contact_section(d, cl)
      [] p = "technical" ->
            SetPass(_evaluate_technical(d, u, cl), "no_design_issues", cl["about_photo"].pass)

\* one pass of evaluate, applied to the checklist it is handed
RunPass(p, d, u, cl) ==
    CASE p = "about" -> _evaluate_about_section(d, cl)
      [] p = "projects" -> _evaluate_projects_section(d, cl)
      [] p = "skills" -> _evaluate_skills_section(d, cl)
      [] p = "contact" -> _evaluate_contact_section(d, cl)
      [] p = "technical" -> _evaluate_technical(d, u, cl)

\* the passes in order; an exception of a pass leaves evaluate at once
RECURSIVE RunPasses(_, _, _, _)
RunPasses(ps, d, u, cl) ==
    IF ps = <<>> THEN [raised |-> FALSE, checklist |-> cl]
    ELSE IF PassRaises(Head(ps), d, u) THEN [raised |-> TRUE, checklist |-> EmptyChecklist]
    ELSE \* a pass has returned its checklist before the next pass starts
         CHOOSE r \in {RunPasses(Tail(ps), d, u, c) :
                          c \in {RunPass(Head(ps), d, u, cl)}} : TRUE

\* what evaluate returns, or that it raised
evaluate(d, u) == RunPasses(PassNames, d, u, _initialize_checklist)

\* try: return {"checklist": evaluate(...)}  except: return {"checklist": {}}
_run_rubric_analysis(d, u) ==
    LET caught(r) == IF r.raised THEN EmptyChecklist ELSE r.checklist
    IN caught(evaluate(d, u))

-----------------------------------------------------------------------------
(* PortfolioAnalyzer._calculate_score, _error_result                       *)

PassedCount(cl) == Cardinality({k \in DOMAIN cl : cl[k].pass})

\* Python round(): the nearest integer to num/den, a tie to the even one
PyRound(num, den) ==
    LET q == num \div den
        r == num % den
    IN IF 2 * r < den THEN q
       ELSE IF 2 * r > den THEN q + 1
       ELSE IF q % 2 = 0 THEN q ELSE q + 1

\* the percentage cut off instead of rounded
ScoreTruncated(cl) ==
    IF DOMAIN cl = {} THEN 0
    ELSE (PassedCount(cl) * 100) \div Cardinality(DOMAIN cl)

_calculate_score(cl) ==
    IF DOMAIN cl = {} THEN 0
    ELSE PyRound(PassedCount(cl) * 100, Cardinality(DOMAIN cl))

\* no result yet, no cache entry
NoResult ==
    [error |-> FALSE, message |-> "none", checklist |-> EmptyChecklist,
     score |-> -1, from_cache |-> FALSE]

_error_result(message) ==
    [error |-> TRUE, message |-> message, checklist |-> EmptyChecklist,
     score |-> 0, from_cache |-> FALSE]

\* final_result of analyze, as far as the checks read it
final_result(cl) ==
    [error |-> FALSE, message |-> "", checklist |-> cl,
     score |-> _calculate_score(cl), from_cache |-> FALSE]

-----------------------------------------------------------------------------
(* Input documents and URLs                                                *)

\* filler words of 15, 30 and 60 letters that hold no keyword
T15 == "loremipsumdolor"
T30 == "loremipsumdolorsitametconsecte"
T60 == "loremipsumdolorsitametconsecteturadipiscingelitseddoeiusmodt"

\* an element with the given attributes
El(tag, parent, fields) == fields @@ Node(tag, parent)

\* the fragment kids placed below the element root
Under(root, kids) ==
    <<root>> \o [i \in 1..Len(kids) |-> [kids[i] EXCEPT !.parent = @ + 1]]

\* fragment b after fragment a
Join(a, b) ==
    a \o [i \in 1..Len(b) |-> [b[i] EXCEPT !.parent = IF @ = 0 THEN 0 ELSE @ + Len(a)]]

RECURSIVE JoinAll(_)
JoinAll(frags) == IF frags = <<>> THEN <<>> ELSE Join(Head(frags), JoinAll(Tail(frags)))

\* n copies of a fragment, one after the other
RECURSIVE Repeat(_, _)
Repeat(frag, n) == IF n = 0 THEN <<>> ELSE Join(frag, Repeat(frag, n - 1))

GithubUrl == <<"http", "s", "://", "github", ".", "com", "/", "jane">>
VercelUrl == <<"http", "s", "://", "shop", ".", "vercel", ".", "app">>
LinkedinUrl == <<"http", "s", "://", "linkedin", ".", "com", "/", "in", "/", "jane">>
BadUrl == <<"http", "://", "[">>

Urls ==
    { <<"http", "s", "://", "jane", ".", "dev">>,
      <<"http", "://", "localhost", ":3000">>,
      <<"http", "s", "://", "github", ".", "com", "/", "jane">> }

AboutFull ==
    Under(El("section", 0, [id |-> <<"about">>]),
          << El("h1", 0, [text |-> <<"Jane", " ", "Doe">>]),
             El("img", 0, [alt |-> <<"profile", " ", "photo">>, src |-> <<"p", ".", "jpg">>]),
             El("p", 0, [text |-> <<T60>>]) >>)

AboutHeading ==
    Under(Node("div", 0),
          << El("h2", 0, [text |-> <<"About", " ", "Me">>]),
             El("p", 0, [text |-> <<T30>>]),
             El("img", 0, [src |-> <<"logo", ".", "png">>]) >>)

AboutFrags == { <<>>, AboutFull, AboutHeading }

\* a project card: heading, description, and the optional parts
Card(cls, desc, img, hrefs) ==
    Under(El("div", 0, [cls |-> <<cls>>]),
          << El("h3", 0, [text |-> <<"Shop">>]), El("p", 0, [text |-> desc]) >>
          \o (IF img THEN <<El("img", 0, [alt |-> <<"shop">>, src |-> <<"shop", ".", "png">>])>>
              ELSE <<>>)
          \o [i \in 1..Len(hrefs) |->
                El("a", 0, [href |-> hrefs[i], target |-> <<"_blank">>, text |-> <<"view">>])])

FullCard == Card(<<"project">>, <<T30, " ", "react", " ", T30>>, TRUE, <<GithubUrl, VercelUrl>>)
PlainCard == Card(<<"project", "-", "card">>, <<T30>>, FALSE, << <<"/", "shop">> >>)
GithubCard == Card(<<"project", "-", "card">>, <<T30>>, FALSE, <<GithubUrl>>)

ProjectsFull == Under(El("section", 0, [id |-> <<"project", "s">>]), Repeat(FullCard, 3))

ProjectsMixed ==
    Under(El("section", 0, [id |-> <<"project", "s">>]),
          JoinAll(<<PlainCard, GithubCard, PlainCard>>))

ProjectsBare ==
    Under(El("section", 0, [cls |-> << <<"my", "-", "work">> >>]),
          << El("h2", 0, [text |-> <<"Project", "s">>]) >>)

ProjectsFrags == { <<>>, ProjectsFull, ProjectsMixed, ProjectsBare }

SkillsSpans ==
    Under(El("section", 0, [id |-> <<"skill", "s">>]),
          Repeat(<<El("span", 0, [cls |-> << <<"skill">> >>, text |-> <<"React">>])>>, 3))

SkillsBare ==
    Under(El("section", 0, [dsec |-> <<"skill", "s">>]),
          << El("p", 0, [text |-> <<T15>>]) >>)

SkillsFrags == { <<>>, SkillsSpans, SkillsBare }

ContactFull ==
    Under(El("section", 0, [id |-> <<"contact">>]),
          << El("a", 0, [href |-> LinkedinUrl, target |-> <<"_blank">>, text |-> <<"in">>]),
             El("a", 0, [href |-> GithubUrl, target |-> <<"_blank">>, text |-> <<"GitHub">>]) >>)

ContactLoose == << El("a", 0, [href |-> GithubUrl, text |-> <<"GitHub">>]) >>

ContactFrags == { <<>>, ContactFull, ContactLoose }

NavExtra ==
    Join(<<El("meta", 0, [name |-> <<"viewport">>])>>,
         Under(Node("nav", 0), << El("a", 0, [href |-> <<"#", "about">>, text |-> <<"About">>]) >>))

\* a link whose href urlparse rejects
BadHrefExtra == << El("a", 0, [href |-> BadUrl, text |-> <<"blog">>]) >>

JsHrefExtra ==
    << El("a", 0, [href |-> <<"java", "script", ":", "void", "(0)">>, text |-> <<"menu">>]),
       El("a", 0, [href |-> <<>>]) >>

TypoExtra == << El("p", 0, [text |-> <<"teh", " ", T15>>]), Node("img", 0) >>

ExtraFrags == { <<>>, NavExtra, BadHrefExtra, JsHrefExtra, TypoExtra }

\* whole pages: one fragment of each kind, in page order
PageDocs ==
    { JoinAll(<<x, a, p, s, c>>) :
        x \in ExtraFrags, a \in AboutFrags, p \in ProjectsFrags,
        s \in SkillsFrags, c \in ContactFrags }

-----------------------------------------------------------------------------
(* POST /grade: grade_portfolio, PortfolioAnalyzer.analyze                 *)

\* how many requests one behaviour answers
MaxRequests == 2

\* how a fetch can end: the three failures, a 200 response with an empty
\* body, a 200 response with the page
FetchOutcomes == {"non200", "timeout", "neterror", "empty", "page"}

FetchFailures == {"non200", "timeout", "neterror"}

Idle == <<>>

Init ==
    /\ doc \in PageDocs
    /\ url \in Urls
    /\ pc = "idle"
    /\ fetched = "none"
    /\ checklist = EmptyChecklist
    /\ result = NoResult
    /\ status = 0
    /\ cache = NoResult
    /\ requests = 0
    /\ found = None
    /\ log = Idle
    /\ ServicesIdle

\* grade_portfolio up to the fetch: force_refresh deletes the cache entry;
\* analyze returns a cached result that has not expired
Grade(force_refresh, expired) ==
    /\ pc = "idle"
    /\ requests < MaxRequests
    /\ fetched' = "none"
    /\ checklist' = EmptyChecklist
    /\ IF force_refresh \/ cache = NoResult \/ expired
       THEN /\ cache' = NoResult
            /\ result' = NoResult
            /\ pc' = "fetch"
       ELSE /\ cache' = cache
            /\ result' = [cache EXCEPT !.from_cache = TRUE]
            /\ pc' = "respond"
    /\ UNCHANGED <<doc, url, status, requests, found, log, services>>

\* _fetch_with_aiohttp and the test `if not html_content`
Fetch(outcome) ==
    /\ pc = "fetch"
    /\ fetched' = outcome
    /\ IF outcome = "page"
       THEN /\ pc' = "rubric"
            /\ result' = result
       ELSE /\ pc' = "respond"
            /\ result' = _error_result("Failed to fetch portfolio content")
    /\ UNCHANGED <<doc, url, checklist, status, cache, requests, found, log, services>>

\* the rubric analysis of the gathered analyses
RunRubric ==
    /\ pc = "rubric"
    /\ checklist' = _run_rubric_analysis(doc, url)
    /\ pc' = "combine"
    /\ UNCHANGED <<doc, url, fetched, result, status, cache, requests, found, log, services>>

\* analyze from "Combine results" on: the score, the cache write (which
\* fails silently when the database does)
Combine(stored) ==
    /\ pc = "combine"
    /\ result' = final_result(checklist)
    /\ cache' = IF stored THEN final_result(checklist) ELSE cache
    /\ pc' = "respond"
    /\ UNCHANGED <<doc, url, fetched, checklist, status, requests, found, log, services>>

\* grade_portfolio after analyze: HTTPException(400) on an error result
Respond ==
    /\ pc = "respond"
    /\ status' = IF result.error THEN 400 ELSE 200
    /\ requests' = requests + 1
    /\ pc' = "idle"
    /\ UNCHANGED <<doc, url, fetched, checklist, result, cache, found, log, services>>

Next ==
    \/ \E force_refresh \in BOOLEAN, expired \in BOOLEAN : Grade(force_refresh, expired)
    \/ \E outcome \in FetchOutcomes : Fetch(outcome)
    \/ RunRubric
    \/ \E stored \in BOOLEAN : Combine(stored)
    \/ Respond

Spec == Init /\ [][Next]_vars

\* C3: the score of a result is an integer in 0..100, the nearest integer to
\* 100 * passed / total (a tie going to the even one) with total the number
\* of keys of the checklist schema, and 0 for the empty checklist.
C3_ScoreIsRoundedPercentage ==
    (pc = "respond" /\ ~result.error) =>
        LET passed == Cardinality({k \in DOMAIN result.checklist : result.checklist[k].pass})
            total == Len(params)
            diff == 100 * passed - result.score * total
        IN /\ result.score \in 0..100
           /\ IF result.checklist = EmptyChecklist
              THEN result.score = 0
              ELSE /\ 2 * diff <= total
                   /\ 2 * diff >= -total
                   /\ (2 * diff = total \/ 2 * diff = -total) => result.score % 2 = 0

\* a fresh result whose percentage was rounded up, to more than half
C3_RoundedUpWitness ==
    /\ pc = "respond" /\ ~result.error /\ ~result.from_cache
    /\ result.checklist # EmptyChecklist
    /\ result.score * Len(params) > 100 * PassedCount(result.checklist)
    /\ result.score > 50

\* C6: analyze returns an error result, and /grade answers 400, exactly when
\* the fetch failed (non-200 status, timeout, network error); every
\* successful fetch gives a normal result.
C6_ErrorIffFetchFailed ==
    /\ (pc = "respond" /\ fetched # "none") => (result.error <=> fetched \in FetchFailures)
    /\ (pc = "idle" /\ requests > 0 /\ fetched # "none") =>
          (status = 400 <=> fetched \in FetchFailures)

-----------------------------------------------------------------------------
(* One RubricEngine instance serving evaluate calls, pass by pass          *)

\* how many evaluate calls one behaviour makes
MaxCalls == 3

EngineDocs ==
    << <<>>,
       BadHrefExtra,
       JoinAll(<<NavExtra, AboutFull, ProjectsFull, SkillsSpans, ContactFull>>),
       JoinAll(<<BadHrefExtra, AboutHeading, ProjectsMixed, ContactLoose>>) >>

EngineUrls == << <<"http", "s", "://", "jane", ".", "dev">>, <<"http", "://", "localhost", ":3000">> >>

\* the inputs of the calls: every document with every URL
EngineInputs == (1..Len(EngineDocs)) \X (1..Len(EngineUrls))

InitEngine ==
    /\ doc = <<>>
    /\ url = EngineUrls[1]
    /\ pc = "idle"
    /\ fetched = "none"
    /\ checklist = EmptyChecklist
    /\ result = NoResult
    /\ status = 0
    /\ cache = NoResult
    /\ requests = 0
    /\ found = <<1, 1>>
    /\ log = Idle
    /\ ServicesIdle

\* evaluate: parse the document, initialize the checklist
Call(input) ==
    /\ pc = "idle"
    /\ Len(log) < MaxCalls
    /\ doc' = EngineDocs[input[1]]
    /\ url' = EngineUrls[input[2]]
    /\ found' = input
    /\ checklist' = _initialize_checklist
    /\ pc' = "about"
    /\ UNCHANGED <<fetched, result, status, cache, requests, log, services>>

\* one pass of evaluate: it updates the checklist, or raises and so ends the
\* call (the checklist, a local of evaluate, is then out of reach)
StepPass(p, next) ==
    /\ pc = p
    /\ IF PassRaises(p, doc, url)
       THEN /\ pc' = "raised"
            /\ checklist' = EmptyChecklist
       ELSE /\ pc' = next
            /\ checklist' = RunPass(p, doc, url, checklist)
    /\ UNCHANGED <<doc, url, fetched, result, status, cache, requests, found, log, services>>

AboutPass == StepPass("about", "projects")

ProjectsPass == StepPass("projects", "skills")

SkillsPass == StepPass("skills", "contact")

ContactPass == StepPass("contact", "technical")

TechnicalPass == StepPass("technical", "return")

\* evaluate hands the checklist, or the exception, to its caller
Return ==
    /\ pc \in {"return", "raised"}
    /\ log' = Append(log, [input |-> found, raised |-> pc = "raised", checklist |-> checklist])
    /\ pc' = "idle"
    /\ UNCHANGED <<doc, url, fetched, checklist, result, status, cache, requests, found, services>>

NextEngine ==
    \/ \E input \in EngineInputs : Call(input)
    \/ AboutPass
    \/ ProjectsPass
    \/ SkillsPass
    \/ ContactPass
    \/ TechnicalPass
    \/ Return

SpecEngine == InitEngine /\ [][NextEngine]_vars

\* the parameter count of the docstrings: "all 27 parameters", "Technical (8)"
DocumentedParams == 27

\* the call whose result is log[i] was made on this document
DocOf(i) == EngineDocs[log[i].input[1]]

\* no strategy matches any label in the document
NoSection(d) == \A l \in Labels : _find_section(d, section_keywords[l]) = None

\* all about_*, projects_*, skills_* keys and contact_section
SectionKeys == Range(SubSeq(params, 1, 17))

\* the keys that record whether a section was found
SectionFoundKeys == {"about_section", "projects_section", "skills_section", "contact_section"}

\* C1: every checklist that evaluate returns has exactly the keys of the
\* fixed schema, the schema has 27 keys, and a key that no pass touched
\* holds pass = FALSE with an empty evidence list.
C1_SchemaOf27Keys ==
    \A i \in 1..Len(log) :
        ~log[i].raised =>
            /\ DOMAIN log[i].checklist = Range(params)
            /\ Cardinality(DOMAIN log[i].checklist) = DocumentedParams
            /\ NoSection(DocOf(i)) =>
                  \A k \in SectionKeys \ SectionFoundKeys :
                      log[i].checklist[k] = [pass |-> FALSE, details |-> <<>>]

\* C2: two evaluate calls on the same document and URL return the same
\* checklist (or both raise), whatever calls the engine served in between.
C2_EvaluateDeterministic ==
    \A i, j \in 1..Len(log) :
        log[i].input = log[j].input =>
            /\ log[i].raised = log[j].raised
            /\ log[i].checklist = log[j].checklist

\* a call, a call on another input, and the first call again, all returned
C2_RepeatedCallWitness ==
    /\ Len(log) >= 3
    /\ log[1].input = log[3].input
    /\ log[2].input # log[1].input
    /\ ~log[1].raised /\ ~log[2].raised
    /\ \E k \in Range(params) : log[1].checklist[k].pass

\* the keys the about pass writes
AboutKeys == Range(SubSeq(params, 1, 5))

\* C5: a pass that raises is caught inside evaluate: evaluate never raises,
\* it returns a checklist with every schema key, and the entries of the
\* other passes are what those passes wrote.
C5_PassExceptionContained ==
    \A i \in 1..Len(log) :
        /\ ~log[i].raised
        /\ DOMAIN log[i].checklist = Range(params)
        /\ \A k \in AboutKeys :
              log[i].checklist[k] = _evaluate_about_section(DocOf(i), _initialize_checklist)[k]

\* C10: on a document in which no label is found, evaluate returns normally
\* and every section-dependent key has pass = FALSE.
C10_AbsenceNeverAnError ==
    \A i \in 1..Len(log) :
        NoSection(DocOf(i)) =>
            /\ ~log[i].raised
            /\ \A k \in SectionKeys : ~log[i].checklist[k].pass

-----------------------------------------------------------------------------
(* _find_section called on small documents, label by label                 *)

\* how many fragments a locator document is built of
MaxLocFrags == 2

\* a fragment for every strategy, one that matches nothing, and one of
\* another label
LocPalette ==
    << << El("section", 0, [id |-> <<"about">>]) >>,
       << El("div", 0, [cls |-> << <<"about">> >>]) >>,
       << El("section", 0, [id |-> <<"about", "-", "section">>]) >>,
       << El("div", 0, [cls |-> << <<"my", "-", "bio">> >>]) >>,
       << El("h2", 0, [text |-> <<"About", " ", "Me">>]) >>,
       Under(Node("div", 0),
             << El("h3", 0, [text |-> <<"About">>]), El("p", 0, [text |-> <<T30>>]) >>),
       << El("div", 0, [dsec |-> <<"about">>]) >>,
       << El("article", 0, [text |-> <<"who", "am", "i", " ", T15>>]) >>,
       << El("p", 0, [text |-> <<T15>>]) >>,
       << El("section", 0, [id |-> <<"contact">>]) >> >>

LocDocs ==
    { JoinAll([i \in DOMAIN f |-> LocPalette[f[i]]]) :
        f \in UNION {[1..m -> 1..Len(LocPalette)] : m \in 0..MaxLocFrags} }

InitLocate ==
    /\ doc \in LocDocs
    /\ url = EngineUrls[1]
    /\ pc = "idle"
    /\ fetched = "none"
    /\ checklist = EmptyChecklist
    /\ result = NoResult
    /\ status = 0
    /\ cache = NoResult
    /\ requests = 0
    /\ found = [label |-> "none", node |-> None]
    /\ log = Idle
    /\ ServicesIdle

\* section = self._find_section(soup, self.section_keywords[label])
Locate(label) ==
    /\ found' = [label |-> label, node |-> _find_section(doc, section_keywords[label])]
    /\ pc' = "located"
    /\ UNCHANGED <<doc, url, fetched, checklist, result, status, cache, requests, log, services>>

NextLocate == \E label \in Labels : Locate(label)

SpecLocate == InitLocate /\ [][NextLocate]_vars

\* C4: the first strategy, in the order exact id, exact class, regex id or
\* class, heading text, data-section attribute, content heuristic, that finds
\* a node gives the result of _find_section, wherever in the document the
\* nodes of later strategies are; if none finds a node the result is None.
C4_CascadeOrder ==
    pc = "located" =>
        LET kws == section_keywords[found.label]
        IN /\ \A k \in Strategies :
                (/\ Strategy(k, doc, kws) # None
                 /\ \A j \in 1..(k - 1) : Strategy(j, doc, kws) = None)
                => found.node = Strategy(k, doc, kws)
           /\ (\A k \in Strategies : Strategy(k, doc, kws) = None) => found.node = None

\* the exact-class match is returned although the heading that the heading
\* strategy would return comes first in the document
C4_EarlierStrategyWinsWitness ==
    /\ pc = "located"
    /\ found.label = "about"
    /\ Strategy(1, doc, section_keywords.about) = None
    /\ found.node = Strategy(2, doc, section_keywords.about)
    /\ Strategy(4, doc, section_keywords.about) # None
    /\ Strategy(4, doc, section_keywords.about) < found.node

-----------------------------------------------------------------------------
(* _find_project_cards and the projects pass on sections of many cards     *)

\* the most cards a projects section holds
MaxCards == 11

\* a small card: a container with the given class list and content
SmallCard(cls, kids) == Under(El("div", 0, [cls |-> cls]), kids)

\* the card kinds: heading only; GitHub link; image and long description;
\* deployed link and a technology keyword
CardKinds(cls) ==
    << SmallCard(cls, << El("h3", 0, [text |-> <<"Shop">>]), El("p", 0, [text |-> <<T30>>]) >>),
       SmallCard(cls, << El("a", 0, [href |-> GithubUrl, text |-> <<T30>>]) >>),
       SmallCard(cls, << Node("img", 0), El("p", 0, [text |-> <<T60>>]) >>),
       SmallCard(cls, << El("a", 0, [href |-> VercelUrl, text |-> <<"react", " ", T30>>]) >>) >>

\* a projects section with n[k] cards of kind k, kind after kind
CardSection(cls, n) ==
    Under(El("section", 0, [id |-> <<"project", "s">>]),
          JoinAll([k \in 1..4 |-> Repeat(CardKinds(cls)[k], n[k])]))

\* any number of heading-only cards, at most one card of each other kind
CardCounts ==
    {n \in [1..4 -> 0..MaxCards] :
        /\ n[1] + n[2] + n[3] + n[4] <= MaxCards
        /\ \A k \in 2..4 : n[k] <= 1}

\* the cards carry the class "card", or no class at all
CardDocs ==
    { CardSection(cls, n) : cls \in { << <<"card">> >>, <<>> }, n \in CardCounts }

InitCards ==
    /\ doc \in CardDocs
    /\ url = EngineUrls[1]
    /\ pc = "idle"
    /\ fetched = "none"
    /\ checklist = _initialize_checklist
    /\ result = NoResult
    /\ status = 0
    /\ cache = NoResult
    /\ requests = 0
    /\ found = <<>>
    /\ log = Idle
    /\ ServicesIdle

\* project_cards = self._find_project_cards(projects_section)
FindCards ==
    /\ pc = "idle"
    /\ found' = _find_project_cards(doc, _find_section(doc, section_keywords.projects))
    /\ pc' = "cards"
    /\ UNCHANGED <<doc, url, fetched, checklist, result, status, cache, requests, log, services>>

\* the whole projects pass on a fresh checklist
EvaluateProjects ==
    /\ pc = "cards"
    /\ checklist' = _evaluate_projects_section(doc, _initialize_checklist)
    /\ pc' = "evaluated"
    /\ UNCHANGED <<doc, url, fetched, result, status, cache, requests, found, log, services>>

NextCards == FindCards \/ EvaluateProjects

SpecCards == InitCards /\ [][NextCards]_vars

\* the per-card flag of the detected card i
CardFlag(i, flag) == _analyze_project_card(doc, found[i], i)[flag]

\* C7: each of projects_links, projects_hero_image, projects_summary,
\* projects_deployed and projects_tech_stack passes iff at least one of the
\* detected cards has the GitHub link, image, description, deployed link or
\* technology keyword.
C7_OrAggregation ==
    pc = "evaluated" =>
        /\ checklist["projects_links"].pass <=> \E i \in 1..Len(found) : CardFlag(i, "has_github")
        /\ checklist["projects_hero_image"].pass <=> \E i \in 1..Len(found) : CardFlag(i, "has_image")
        /\ checklist["projects_summary"].pass <=> \E i \in 1..Len(found) : CardFlag(i, "has_description")
        /\ checklist["projects_deployed"].pass <=> \E i \in 1..Len(found) : CardFlag(i, "has_deployed")
        /\ checklist["projects_tech_stack"].pass <=> \E i \in 1..Len(found) : CardFlag(i, "has_tech_stack")

\* three detected cards of which exactly one has a GitHub link
C7_OneOfThreeWitness ==
    /\ pc = "evaluated"
    /\ Len(found) = 3
    /\ Cardinality({i \in 1..3 : CardFlag(i, "has_github")}) = 1
    /\ checklist["projects_links"].pass

\* C8: _find_project_cards returns at most 10 cards, the first 10 of those it
\* collected, and exactly 10 when the section holds more than 10.
C8_CardCap ==
    pc \in {"cards", "evaluated"} =>
        LET section == _find_section(doc, section_keywords.projects)
            collected == CollectedCards(doc, section)
        IN /\ Len(found) <= 10
           /\ Len(collected) > 10 => (Len(found) = 10 /\ found = SubSeq(collected, 1, 10))
           /\ Len(collected) <= 10 => found = collected

\* a section of more than 10 cards, all of them collected
C8_ElevenCardsWitness ==
    /\ pc = "cards"
    /\ Cardinality(Children(doc, 1)) > 10
    /\ Len(CollectedCards(doc, 1)) = Cardinality(Children(doc, 1))
    /\ Len(found) = 10

-----------------------------------------------------------------------------
(* The five passes of evaluate run in every order                          *)

PassDocs ==
    { JoinAll(<<x, a, p, s, c>>) :
        x \in { <<>>, NavExtra, BadHrefExtra },
        a \in AboutFrags,
        p \in { <<>>, ProjectsMixed },
        s \in { <<>>, SkillsSpans },
        c \in { <<>>, ContactFull } }

InitPasses ==
    /\ doc \in PassDocs
    /\ url \in Range(EngineUrls)
    /\ pc = "passes"
    /\ fetched = "none"
    /\ checklist = _initialize_checklist
    /\ result = NoResult
    /\ status = 0
    /\ cache = NoResult
    /\ requests = 0
    /\ found = None
    /\ log = {}
    /\ ServicesIdle

\* some pass that has not run yet (log holds those that have) runs on the
\* checklist as it is now; a pass that raises ends the evaluation
AnyPass(p) ==
    /\ pc = "passes"
    /\ p \notin log
    /\ IF PassRaises(p, doc, url)
       THEN /\ pc' = "raised"
            /\ checklist' = EmptyChecklist
            /\ log' = log
       ELSE /\ pc' = IF log \cup {p} = Range(PassNames) THEN "done" ELSE "passes"
            /\ checklist' = RunPass(p, doc, url, checklist)
            /\ log' = log \cup {p}
    /\ UNCHANGED <<doc, url, fetched, result, status, cache, requests, found, services>>

NextPasses == \E p \in Range(PassNames) : AnyPass(p)

SpecPasses == InitPasses /\ [][NextPasses]_vars

\* the checklist keys that belong to a pass
KeysOf(p) ==
    CASE p = "about" -> Range(SubSeq(params, 1, 5))
      [] p = "projects" -> Range(SubSeq(params, 6, 14))
      [] p = "skills" -> Range(SubSeq(params, 15, 16))
      [] p = "contact" -> Range(SubSeq(params, 17, 19))
      [] p = "technical" -> Range(SubSeq(params, 20, 26))

\* C9: the passes are independent: a pass changes only its own keys, what it
\* writes there does not depend on what the checklist holds from other
\* passes, and so every order of the five passes ends as evaluate does.
C9_PassesIndependent ==
    [][/\ \A p \in Range(PassNames) :
            (log' = log \cup {p} /\ log' # log) =>
                LET alone == RunPass(p, doc, url, _initialize_checklist)
                IN \A k \in Range(params) :
                      checklist'[k] = IF k \in KeysOf(p) THEN alone[k] ELSE checklist[k]
       /\ pc' = "done" =>
            LET whole == evaluate(doc, url)
            IN ~whole.raised /\ checklist' = whole.checklist
       /\ pc' = "raised" => TechnicalRaises(doc, url)]_vars

\* the technical pass and all others but the about pass have run, the about
\* pass is still to run, and both have a check to pass
C9_AboutLastWitness ==
    /\ pc = "passes"
    /\ log = Range(PassNames) \ {"about"}
    /\ checklist["no_design_issues"].pass
    /\ checklist["projects_links"].pass
    /\ ~checklist["about_photo"].pass
    /\ _evaluate_about_section(doc, checklist)["about_photo"].pass

-----------------------------------------------------------------------------
(* The technical pass on pages of links, under several source URLs         *)

\* the most offending links of one kind on a page
MaxLinks == 6

\* the source URLs a submission may carry
TechUrls ==
    { <<"http", "s", "://", "jane", ".", "dev">>,
      <<"http", "://", "jane", ".", "dev">>,
      <<"http", "://", "localhost", ":3000">>,
      <<"http", "s", "://", "localhost", ":3000">>,
      <<"http", "s", "://", "127.0.0.1", ":8000", "/", "index">>,
      <<"http", "s", "://", "localhost", ".", "example", ".", "com">>,
      <<"http", "s", "://", "jane", "@", "localhost", ":3000">> }

\* the n-th external link of a page, with or without target="_blank"
ExtLink(n, blank) ==
    El("a", 0, [href |-> GithubUrl \o <<"/", ToString(n)>>,
                text |-> <<"repo", ToString(n)>>,
                target |-> IF blank THEN <<"_blank">> ELSE Absent])

\* the n-th link of a page whose href is a javascript: pseudo-URL
JsLink(n) ==
    El("a", 0, [href |-> <<"java", "script", ":", "open", ToString(n)>>,
                text |-> <<"menu", ToString(n)>>])

\* k external links without target (after the first of them one that has
\* it, when blank), then m javascript: links, then an in-page link
LinkDoc(k, m, blank) ==
    [i \in 1..k |-> ExtLink(i, FALSE)]
    \o (IF blank THEN <<ExtLink(0, TRUE)>> ELSE <<>>)
    \o [i \in 1..m |-> JsLink(i)]
    \o << El("a", 0, [href |-> <<"#", "about">>, text |-> <<"About">>]) >>

LinkDocs ==
    { LinkDoc(k, m, blank) : k \in 0..MaxLinks, m \in 0..MaxLinks, blank \in BOOLEAN }
    \cup { BadHrefExtra }

InitTechnical ==
    /\ doc \in LinkDocs
    /\ url \in TechUrls
    /\ pc = "technical"
    /\ fetched = "none"
    /\ checklist = _initialize_checklist
    /\ result = NoResult
    /\ status = 0
    /\ cache = NoResult
    /\ requests = 0
    /\ found = None
    /\ log = {}
    /\ ServicesIdle

\* _evaluate_technical on a fresh checklist; urlparse may raise in it
EvaluateTechnical ==
    /\ pc = "technical"
    /\ IF TechnicalRaises(doc, url)
       THEN /\ pc' = "raised"
            /\ checklist' = EmptyChecklist
       ELSE /\ pc' = "done"
            /\ checklist' = _evaluate_technical(doc, url, checklist)
    /\ UNCHANGED <<doc, url, fetched, result, status, cache, requests, found, log, services>>

NextTechnical == EvaluateTechnical

SpecTechnical == InitTechnical /\ [][NextTechnical]_vars

\* the tokens that open a port in a netloc
PortTokens == {":3000", ":8000"}

\* urlparse(s).hostname: the netloc without userinfo and port, lower-cased
UrlHostname(s) ==
    LET noport(h) ==
            SubSeq(h, 1, Min({i \in 1..Len(h) : h[i] \in PortTokens} \cup {Len(h) + 1}) - 1)
        nouser(n, ats) ==
            IF ats = {} THEN n
            ELSE SubSeq(n, (CHOOSE i \in ats : \A j \in ats : j <= i) + 1, Len(n))
        host(n) == LowerStr(noport(nouser(n, {i \in 1..Len(n) : n[i] = "@"})))
    IN host(UrlNetloc(s))

\* C11: once the technical pass has run, professional_url passes iff the
\* scheme of the source URL is https and its host is neither localhost nor
\* 127.0.0.1, whatever the HTML holds; for http://localhost:3000 it fails.
C11_ProfessionalUrlByHost ==
    pc = "done" =>
        /\ checklist["professional_url"].pass
              = (/\ UrlScheme(url) = <<"http", "s">>
                 /\ UrlHostname(url) \notin { <<"localhost">>, <<"127.0.0.1">> })
        /\ url = <<"http", "://", "localhost", ":3000">>
              => ~checklist["professional_url"].pass

\* the external anchors without target="_blank", in document order
WithoutTarget(d, u) == SelectSeq(external_links(d, u), LAMBDA a : d[a].target # <<"_blank">>)

\* the anchors with an invalid href, in document order
InvalidLinks(d) == SelectSeq(AllLinks(d), LAMBDA a : InvalidHref(d[a].href))

\* the links an evidence list names, and its lines that count a remainder
LinksNamed(details) ==
    [i \in 1..Len(SelectSeq(details, LAMBDA e : e.s # <<>>)) |->
        SelectSeq(details, LAMBDA e : e.s # <<>>)[i].s]

CountLines(details) == SelectSeq(details, LAMBDA e : e.msg = "... and {n} more")

\* the evidence of an item names the first MaxListed of the offending links
\* (given as they are displayed, in document order) and counts the others
ReportsOffenders(entry, offending) ==
    /\ ~entry.pass
    /\ LinksNamed(entry.details) = FirstN(offending, MaxListed)
    /\ CountLines(entry.details)
          = IF Len(offending) > MaxListed
            THEN <<D("... and {n} more", Len(offending) - MaxListed, <<>>)>> ELSE <<>>

\* C12: when k >= 1 external anchors lack target="_blank" (or k anchors have
\* an invalid href) the item fails and its evidence names exactly the first
\* min(k, 5) of them in document order, with one count of the other k - 5
\* iff k > 5; one offending anchor alone is named alone.
C12_OffendingLinksReported ==
    pc = "done" =>
        LET ext(without) ==
                without # <<>> =>
                    ReportsOffenders(checklist["external_links_new_tab"],
                        [i \in 1..Len(without) |-> ExternalDisplay(doc, without[i]).s])
            inv(invalid) ==
                invalid # <<>> =>
                    ReportsOffenders(checklist["links_correct"],
                        [i \in 1..Len(invalid) |-> InvalidDisplay(doc, invalid[i]).s])
        IN ext(WithoutTarget(doc, url)) /\ inv(InvalidLinks(doc))

\* a page with one external anchor without target and more than five anchors
\* with an invalid href has been evaluated
C12_OneAndManyWitness ==
    /\ pc = "done"
    /\ Len(WithoutTarget(doc, url)) = 1
    /\ Len(InvalidLinks(doc)) > MaxListed
    /\ Len(checklist["links_correct"].details) = MaxListed + 2

-----------------------------------------------------------------------------
(* evaluate on pages that hold every part the rubric asks for              *)

\* the most project cards of a complete page
MaxPageCards == 5

\* the about, skills and contact sections with n full project cards between
\* them, the cards inside a section#projects or directly in the body
CompletePage(wrapped, n, extra) ==
    JoinAll(<<extra, AboutFull,
              IF wrapped
              THEN Under(El("section", 0, [id |-> <<"project", "s">>]), Repeat(FullCard, n))
              ELSE Repeat(FullCard, n),
              SkillsSpans, ContactFull>>)

CompleteDocs ==
    { CompletePage(wrapped, n, extra) :
        wrapped \in BOOLEAN, n \in MinProjects..MaxPageCards, extra \in ExtraFrags }

InitComplete ==
    /\ doc \in CompleteDocs
    /\ url \in Urls
    /\ pc = "page"
    /\ fetched = "none"
    /\ checklist = _initialize_checklist
    /\ result = NoResult
    /\ status = 0
    /\ cache = NoResult
    /\ requests = 0
    /\ found = None
    /\ log = {}
    /\ ServicesIdle

\* evaluate(html_content, url): the five passes, or the exception of one
EvaluatePage ==
    /\ pc = "page"
    /\ LET returned(r) ==
               /\ pc' = IF r.raised THEN "raised" ELSE "done"
               /\ checklist' = r.checklist
       IN returned(evaluate(doc, url))
    /\ UNCHANGED <<doc, url, fetched, result, status, cache, requests, found, log, services>>

NextComplete == EvaluatePage

SpecComplete == InitComplete /\ [][NextComplete]_vars

\* C13: on the page made of section#about (two-word name, profile photo,
\* paragraph of more than 50 characters), three div.project cards with
\* heading, image, GitHub link, deployed link and tech keyword,
\* section#skills with three span.skill and section#contact with LinkedIn
\* and GitHub anchors, every about, projects, skills and contact key passes.
C13_MinimalPagePasses ==
    pc = "done" /\ doc = CompletePage(FALSE, MinProjects, <<>>) =>
        \A k \in KeysOf("about") \cup KeysOf("projects") \cup KeysOf("skills")
                 \cup KeysOf("contact") :
            checklist[k].pass

-----------------------------------------------------------------------------
(* AIAnalyzer: the provider chain                                          *)

\* how many analyze calls a run makes
MaxAnalyses == 3

\* the list with the rule-based provider first
rule_based_first == <<"RuleBased", "Gemini", "Groq">>

\* self.providers, in the order of the constructor
providers == <<"Gemini", "Groq", "RuleBased">>

\* provider.is_available(): bool(self.api_key), and True for RuleBased
is_available(p, keys) == IF p = "RuleBased" THEN TRUE ELSE keys[p]

\* how the request of a provider may end: a response, an exception of the
\* client, or the timeout of asyncio.wait_for; RuleBasedProvider awaits
\* nothing and builds its text itself
Endings(p) == IF p = "RuleBased" THEN {"response"} ELSE {"response", "exception", "timeout"}

\* what provider.analyze returns
ProviderResult(p, ending) ==
    CASE ending = "response" -> [success |-> TRUE, provider |-> p, error |-> "none"]
      [] ending = "timeout" -> [success |-> FALSE, provider |-> "absent", error |-> "timeout"]
      [] ending = "exception" -> [success |-> FALSE, provider |-> "absent", error |-> "str(e)"]

\* the dict after the loop
critical_failure == [success |-> FALSE, provider |-> "None", error |-> "critical_failure"]

NoAnalysis == [success |-> FALSE, provider |-> "absent", error |-> "no result"]

\* the for loop moves to the provider at index i, or falls out of the loop
\* and returns the critical-failure dict
NextProvider(a, i) ==
    IF i > Len(providers)
    THEN [a EXCEPT !.pc = "returned", !.i = i, !.result = critical_failure]
    ELSE [a EXCEPT !.pc = "loop", !.i = i]

InitAI ==
    /\ ai \in { [pc |-> "idle", keys |-> keys, i |-> 0, attempts |-> <<>>,
                 result |-> NoAnalysis, calls |-> 0] :
                keys \in [{"Gemini", "Groq"} -> BOOLEAN] }
    /\ batch = <<>>
    /\ gather = <<>>
    /\ validation = <<>>
    /\ doc = <<>>
    /\ url = <<>>
    /\ pc = "idle"
    /\ fetched = "none"
    /\ checklist = _initialize_checklist
    /\ result = NoResult
    /\ status = 0
    /\ cache = NoResult
    /\ requests = 0
    /\ found = None
    /\ log = {}
    /\ db = <<>>
    /\ calls = <<>>

\* await ai_analyzer.analyze(html_content): the loop starts
AIAnalyze ==
    /\ ai.pc \in {"idle", "returned"}
    /\ ai.calls < MaxAnalyses
    /\ ai' = [NextProvider(ai, 1) EXCEPT !.attempts = <<>>, !.result = NoAnalysis,
                                         !.calls = @ + 1]
    /\ UNCHANGED <<engine, batch, gather, validation, db, calls>>

\* if not provider.is_available(): continue
SkipProvider ==
    /\ ai.pc = "loop"
    /\ ~is_available(providers[ai.i], ai.keys)
    /\ ai' = NextProvider(ai, ai.i + 1)
    /\ UNCHANGED <<engine, batch, gather, validation, db, calls>>

\* result = await provider.analyze(html_content, prompt): the request is out
InvokeProvider ==
    /\ ai.pc = "loop"
    /\ is_available(providers[ai.i], ai.keys)
    /\ ai' = [ai EXCEPT !.pc = "await",
                        !.attempts = Append(@, [provider |-> providers[ai.i],
                                                result |-> NoAnalysis])]
    /\ UNCHANGED <<engine, batch, gather, validation, db, calls>>

\* provider.analyze returns; a success is returned, a failure tries the next
ProviderReturns(ending) ==
    /\ ai.pc = "await"
    /\ ending \in Endings(providers[ai.i])
    /\ LET returned(r, tried) ==
               IF r.success
               THEN ai' = [ai EXCEPT !.pc = "returned", !.result = r, !.attempts = tried]
               ELSE ai' = NextProvider([ai EXCEPT !.attempts = tried], ai.i + 1)
           got(r) == returned(r, [ai.attempts EXCEPT ![Len(ai.attempts)].result = r])
       IN got(ProviderResult(providers[ai.i], ending))
    /\ UNCHANGED <<engine, batch, gather, validation, db, calls>>

NextAI ==
    \/ AIAnalyze
    \/ SkipProvider
    \/ InvokeProvider
    \/ \E ending \in {"response", "exception", "timeout"} : ProviderReturns(ending)

SpecAI == InitAI /\ [][NextAI]_vars

\* the event loop runs a coroutine that can run, and every request ends: by
\* its response, by an exception or by the timeout of asyncio.wait_for
FairSpecAI ==
    /\ SpecAI
    /\ WF_vars(SkipProvider)
    /\ WF_vars(InvokeProvider)
    /\ WF_vars(\E ending \in {"response", "exception", "timeout"} : ProviderReturns(ending))

\* the names of the providers tried so far
Tried == [j \in 1..Len(ai.attempts) |-> ai.attempts[j].provider]

\* Gemini, Groq, RuleBased without those whose key is missing
AvailableInOrder ==
    SelectSeq(<<"Gemini", "Groq", "RuleBased">>,
              LAMBDA p : p = "RuleBased" \/ ai.keys[p])

\* C14: analyze tries Gemini, Groq, RuleBased in this order and skips the
\* unavailable; a provider is invoked only after every earlier available one
\* has returned a failure; the first success is what the call returns, and
\* whatever keys are set and however Gemini and Groq fail, every call
\* returns a successful result that names the provider it came from.
C14_ProviderChain ==
    /\ [](/\ Tried = SubSeq(AvailableInOrder, 1, Len(Tried))
          /\ \A j \in 1..(Len(ai.attempts) - 1) : ~ai.attempts[j].result.success
          /\ ai.pc = "returned" =>
                /\ ai.result.success
                /\ ai.result = ai.attempts[Len(ai.attempts)].result
                /\ ai.result.provider = ai.attempts[Len(ai.attempts)].provider)
    /\ [][ai'.pc = "await" => \A j \in 1..Len(ai.attempts) :
                                  /\ ai.attempts[j].result # NoAnalysis
                                  /\ ~ai.attempts[j].result.success]_vars
    /\ (ai.pc \in {"loop", "await"} ~> ai.pc = "returned")

\* with both keys set Gemini timed out, Groq raised, and the rule-based
\* provider produced the result of the call
C14_FallbackWitness ==
    /\ ai.pc = "returned"
    /\ Len(ai.attempts) = 3
    /\ ai.attempts[1] = [provider |-> "Gemini", result |-> ProviderResult("Gemini", "timeout")]
    /\ ai.attempts[2] = [provider |-> "Groq", result |-> ProviderResult("Groq", "exception")]
    /\ ai.result = [success |-> TRUE, provider |-> "RuleBased", error |-> "none"]

-----------------------------------------------------------------------------
(* POST /batch-grade: analyze_one under asyncio.Semaphore                  *)

\* the most portfolios of a batch and the largest concurrency setting
MaxItems == 3
MaxSlots == 2

\* how analyzer.analyze may end for an item: a result, an error result
\* (fetch failed, timeout), or an exception out of it
AnalysisEndings == {"result", "error result", "exception"}

\* the BatchResult analyze_one returns for the item
BatchResult(item, ending) ==
    [id |-> item, status |-> IF ending = "result" THEN "success" ELSE "failed"]

\* a semaphore that never blocks
NeverLocked(b) == FALSE

\* Semaphore.locked(): no slot is free, or tasks are queued for one
locked(b) == b.semaphore = 0 \/ b.waiters # <<>>

\* the items whose analysis is in progress, and those that hold a slot
InProgress(b) == {i \in DOMAIN b.tasks : b.tasks[i] \in {"analyzing", "slow"}}
Holding(b) == {i \in DOMAIN b.tasks : b.tasks[i] \in {"woken", "analyzing", "slow"}}
Waiting(b) == {i \in DOMAIN b.tasks : b.tasks[i] = "waiting"}

\* Semaphore.release(): the slot goes to the first queued task, which is
\* woken, or back to the counter
release(b) ==
    IF b.waiters = <<>> THEN [b EXCEPT !.semaphore = @ + 1]
    ELSE [b EXCEPT !.waiters = Tail(@), !.tasks[Head(b.waiters)] = "woken"]

InitBatch ==
    /\ batch \in { [pc |-> "idle", limit |-> limit, semaphore |-> 0, waiters |-> <<>>,
                    tasks |-> <<>>, results |-> <<>>, response |-> <<>>] :
                   limit \in 1..MaxSlots }
    /\ ai = <<>>
    /\ gather = <<>>
    /\ validation = <<>>
    /\ doc = <<>>
    /\ url = <<>>
    /\ pc = "idle"
    /\ fetched = "none"
    /\ checklist = _initialize_checklist
    /\ result = NoResult
    /\ status = 0
    /\ cache = NoResult
    /\ requests = 0
    /\ found = None
    /\ log = {}
    /\ db = <<>>
    /\ calls = <<>>

\* the request arrives with n portfolios: the semaphore is made and
\* asyncio.gather creates one task per item
BatchGrade(n) ==
    /\ batch.pc = "idle"
    /\ batch' = [batch EXCEPT !.pc = "gather", !.semaphore = batch.limit,
                              !.tasks = [i \in 1..n |-> "created"],
                              !.results = [i \in 1..n |-> <<>>]]
    /\ UNCHANGED <<engine, ai, gather, validation, db, calls>>

\* async with semaphore: the task takes a slot or queues for one
Acquire(i) ==
    /\ batch.pc = "gather"
    /\ i \in DOMAIN batch.tasks
    /\ batch.tasks[i] = "created"
    /\ batch' = IF locked(batch)
                THEN [batch EXCEPT !.tasks[i] = "waiting", !.waiters = Append(@, i)]
                ELSE [batch EXCEPT !.tasks[i] = "analyzing", !.semaphore = @ - 1]
    /\ UNCHANGED <<engine, ai, gather, validation, db, calls>>

\* a woken task runs on: await analyzer.analyze(item.portfolio_url)
Resume(i) ==
    /\ batch.pc = "gather"
    /\ i \in DOMAIN batch.tasks
    /\ batch.tasks[i] = "woken"
    /\ batch' = [batch EXCEPT !.tasks[i] = "analyzing"]
    /\ UNCHANGED <<engine, ai, gather, validation, db, calls>>

\* the analysis of the item takes its time
Slow(i) ==
    /\ batch.pc = "gather"
    /\ i \in DOMAIN batch.tasks
    /\ batch.tasks[i] = "analyzing"
    /\ batch' = [batch EXCEPT !.tasks[i] = "slow"]
    /\ UNCHANGED <<engine, ai, gather, validation, db, calls>>

\* analyzer.analyze ends: analyze_one returns its BatchResult and leaves the
\* async with block, which releases the slot
Finish(i, ending) ==
    /\ batch.pc = "gather"
    /\ i \in DOMAIN batch.tasks
    /\ batch.tasks[i] \in {"analyzing", "slow"}
    /\ batch' = release([batch EXCEPT !.tasks[i] = "done",
                                      !.results[i] = Append(@, BatchResult(i, ending))])
    /\ UNCHANGED <<engine, ai, gather, validation, db, calls>>

\* asyncio.gather returns the results in the order of the items
Gathered ==
    /\ batch.pc = "gather"
    /\ \A i \in DOMAIN batch.tasks : batch.tasks[i] = "done"
    /\ batch' = [batch EXCEPT !.pc = "responded",
                              !.response = [i \in DOMAIN batch.tasks |-> batch.results[i][1]]]
    /\ UNCHANGED <<engine, ai, gather, validation, db, calls>>

NextBatch ==
    \/ \E n \in 1..MaxItems : BatchGrade(n)
    \/ \E i \in 1..MaxItems :
          \/ Acquire(i)
          \/ Resume(i)
          \/ Slow(i)
          \/ \E ending \in AnalysisEndings : Finish(i, ending)
    \/ Gathered

SpecBatch == InitBatch /\ [][NextBatch]_vars

\* the event loop runs every task that can run, and every analysis ends
\* (PortfolioAnalyzer.analyze bounds its fetches by timeouts)
FairSpecBatch ==
    /\ SpecBatch
    /\ \A i \in 1..MaxItems :
          /\ WF_vars(Acquire(i))
          /\ WF_vars(Resume(i))
          /\ WF_vars(\E ending \in AnalysisEndings : Finish(i, ending))
    /\ WF_vars(Gathered)

\* C15: during a /batch-grade request at most max_concurrent_analyses
\* analyses are in progress at any moment; no slot stays free while an item
\* waits, and a released slot goes to a waiting item in the same step; every
\* analysis, slow or failing, holds exactly one slot; and the request ends
\* with exactly one BatchResult for every submitted item.
C15_BoundedWorkerPool ==
    /\ [](/\ Cardinality(InProgress(batch)) <= batch.limit
          /\ batch.pc = "gather" =>
                /\ batch.semaphore + Cardinality(Holding(batch)) = batch.limit
                /\ Waiting(batch) # {} => batch.semaphore = 0
          /\ batch.pc = "responded" =>
                /\ Len(batch.response) = Len(batch.tasks)
                /\ \A i \in DOMAIN batch.tasks :
                      /\ Len(batch.results[i]) = 1
                      /\ batch.response[i].id = i)
    /\ [][\A i \in DOMAIN batch.tasks :
            (batch.tasks[i] \in {"analyzing", "slow"} /\ batch'.tasks[i] = "done"
             /\ Waiting(batch) # {})
                => Cardinality(Waiting(batch')) = Cardinality(Waiting(batch)) - 1]_vars
    /\ (batch.pc = "gather" ~> batch.pc = "responded")

\* a batch of more items than slots has been answered, one item failed
\* and another succeeded
C15_MoreItemsThanSlotsWitness ==
    /\ batch.pc = "responded"
    /\ Len(batch.tasks) > batch.limit
    /\ \E i, j \in DOMAIN batch.response :
          /\ batch.response[i].status = "failed"
          /\ batch.response[j].status = "success"

-----------------------------------------------------------------------------
(* PortfolioAnalyzer.analyze: the three gathered analyses                  *)

\* how many pages a run analyses
MaxGathers == 2

\* an analysis that has not returned yet
Pending == [pending |-> TRUE]

\* what _run_ai_analysis may return: the result of the provider that
\* answered, or the texts for a disabled or a failed analysis
AIResults ==
    { [analysis |-> "response.text", provider |-> p] : p \in Range(providers) }
    \cup { [analysis |-> "AI analysis disabled", provider |-> "None"],
           [analysis |-> "AI analysis failed", provider |-> "None"] }

\* what _run_image_analysis may return on the page: without an image with
\* src nothing is validated; otherwise what the validator finds
ImageResults(d) ==
    IF \A j \in Tagged(d, 0, {"img"}) : Get(d[j].src, <<>>) = <<>>
    THEN { [exists |-> FALSE, has_face |-> FALSE, details |-> "No profile image found"] }
    ELSE { [exists |-> TRUE, has_face |-> TRUE, details |-> "face detected"],
           [exists |-> TRUE, has_face |-> FALSE, details |-> "no face detected"],
           [exists |-> FALSE, has_face |-> FALSE, details |-> "Failed to download image"] }

\* a result whose score counts a detected face as one more passed item
photo_counted(rubric_result, ai_result, image_result) ==
    [error |-> FALSE, message |-> "", checklist |-> rubric_result,
     ai_analysis |-> ai_result.analysis, ai_provider |-> ai_result.provider,
     professional_photo |-> image_result,
     score |-> IF image_result.has_face /\ _calculate_score(rubric_result) < 100
               THEN _calculate_score(rubric_result) + 1
               ELSE _calculate_score(rubric_result),
     from_cache |-> FALSE]

\* final_result with the narrative and the photo: the checklist is the
\* rubric's, the score is computed from the checklist
combined_result(rubric_result, ai_result, image_result) ==
    [error |-> FALSE, message |-> "", checklist |-> rubric_result,
     ai_analysis |-> ai_result.analysis, ai_provider |-> ai_result.provider,
     professional_photo |-> image_result,
     score |-> _calculate_score(rubric_result), from_cache |-> FALSE]

\* the empty page, a page with every section and one whose rubric raises
GatherDocs == { EngineDocs[1], EngineDocs[3], EngineDocs[4] }

InitGather ==
    /\ doc \in GatherDocs
    /\ url = EngineUrls[1]
    /\ pc = "idle"
    /\ fetched = "page"
    /\ checklist = EmptyChecklist
    /\ result = NoResult
    /\ status = 0
    /\ cache = NoResult
    /\ requests = 0
    /\ found = None
    /\ log = {}
    /\ ai = <<>>
    /\ batch = <<>>
    /\ gather = <<>>
    /\ validation = <<>>
    /\ db = <<>>
    /\ calls = <<>>

\* asyncio.gather starts the three analyses on the fetched page
StartGather ==
    /\ pc \in {"idle", "returned"}
    /\ requests < MaxGathers
    /\ pc' = "gather"
    /\ gather' = [rubric |-> Pending, ai |-> Pending, image |-> Pending]
    /\ result' = NoResult
    /\ requests' = requests + 1
    /\ UNCHANGED <<doc, url, fetched, checklist, status, cache, found, log, ai, batch, validation,
                 db, calls>>

\* _run_rubric_analysis returns
RubricReturns ==
    /\ pc = "gather"
    /\ gather.rubric = Pending
    /\ gather' = [gather EXCEPT !.rubric = _run_rubric_analysis(doc, url)]
    /\ UNCHANGED <<engine, ai, batch, validation, db, calls>>

\* _run_ai_analysis returns
AIReturns(ai_result) ==
    /\ pc = "gather"
    /\ gather.ai = Pending
    /\ gather' = [gather EXCEPT !.ai = ai_result]
    /\ UNCHANGED <<engine, ai, batch, validation, db, calls>>

\* _run_image_analysis returns
ImageReturns(image_result) ==
    /\ pc = "gather"
    /\ gather.image = Pending
    /\ image_result \in ImageResults(doc)
    /\ gather' = [gather EXCEPT !.image = image_result]
    /\ UNCHANGED <<engine, ai, batch, validation, db, calls>>

\* the three have returned: the results are combined, the score is
\* calculated and analyze returns
CombineResults ==
    /\ pc = "gather"
    /\ Pending \notin {gather.rubric, gather.ai, gather.image}
    /\ pc' = "returned"
    /\ checklist' = gather.rubric
    /\ result' = combined_result(gather.rubric, gather.ai, gather.image)
    /\ log' = log \cup {combined_result(gather.rubric, gather.ai, gather.image)}
    /\ UNCHANGED <<doc, url, fetched, status, cache, requests, found, services>>

NextGather ==
    \/ StartGather
    \/ RubricReturns
    \/ \E ai_result \in AIResults : AIReturns(ai_result)
    \/ \E image_result \in UNION {ImageResults(d) : d \in GatherDocs} :
          ImageReturns(image_result)
    \/ CombineResults

SpecGather == InitGather /\ [][NextGather]_vars

\* C16: checklist and score of the result are those of the rubric on the
\* page: runs on the same HTML and URL that differ in how the AI narrative
\* ended (provider, disabled, failed) or in what the photo validation found
\* return the same checklist and the same score.
C16_ScoreFromChecklistAlone ==
    /\ \A r1, r2 \in log : r1.checklist = r2.checklist /\ r1.score = r2.score
    /\ pc = "returned" =>
          /\ result.checklist = _run_rubric_analysis(doc, url)
          /\ result.score = _calculate_score(result.checklist)

\* the same page was analysed twice: once Gemini answered and a face was
\* found, once the narrative failed and the image could not be loaded
C16_TwoRunsWitness ==
    /\ pc = "returned"
    /\ result.score > 0
    /\ \E r1, r2 \in log :
          /\ r1.ai_provider = "Gemini" /\ r1.professional_photo.has_face
          /\ r2.ai_provider = "None" /\ ~r2.professional_photo.exists

-----------------------------------------------------------------------------
(* PortfolioAnalyzer._generate_learning_resources                          *)

\* resources[:3]
MaxResources == 3

\* the five templates, by their key in resource_map (title only)
resource_map ==
    [ about_section |-> [title |-> "Creating an Effective About Section"],
      projects_minimum |-> [title |-> "Showcasing Your Projects"],
      responsive_design |-> [title |-> "Making Your Portfolio Responsive"],
      skills_highlighted |-> [title |-> "Highlighting Your Skills"],
      contact_section |-> [title |-> "Making It Easy to Contact You"] ]

\* each checklist key up to and with its first underscore
KeyPrefix ==
    [ about_section |-> "about_", about_name |-> "about_", about_photo |-> "about_",
      about_intro |-> "about_", about_professional_photo |-> "about_",
      projects_section |-> "projects_", projects_minimum |-> "projects_",
      projects_samples |-> "projects_", projects_deployed |-> "projects_",
      projects_links |-> "projects_", projects_finished |-> "projects_",
      projects_summary |-> "projects_", projects_hero_image |-> "projects_",
      projects_tech_stack |-> "projects_",
      skills_section |-> "skills_", skills_highlighted |-> "skills_",
      contact_section |-> "contact_", contact_linkedin |-> "contact_",
      contact_github |-> "contact_",
      links_correct |-> "links_", responsive_design |-> "responsive_",
      professional_url |-> "professional_", grammar_checked |-> "grammar_",
      single_page_navbar |-> "single_", no_design_issues |-> "no_",
      external_links_new_tab |-> "external_" ]

\* only a failed key that is itself a key of resource_map names a resource
exact_key_only(key) == IF key \in DOMAIN resource_map THEN key ELSE ""

\* the if/elif chain: the resource of a failed key, "" for None
resource_key(key) ==
    IF KeyPrefix[key] = "about_" THEN "about_section"
    ELSE IF KeyPrefix[key] = "projects_" THEN "projects_minimum"
    ELSE IF KeyPrefix[key] = "skills_" THEN "skills_highlighted"
    ELSE IF KeyPrefix[key] = "contact_" THEN "contact_section"
    ELSE IF key = "responsive_design" THEN "responsive_design"
    ELSE ""

\* checklist.items() in the order the keys were inserted
ItemKeys(cl) == SelectSeq(params, LAMBDA k : k \in DOMAIN cl)

\* where x first stands in seq
Pos(seq, x) == Min({i \in 1..Len(seq) : seq[i] = x})

\* the loop over the failed keys: a resource is appended when its key is
\* met for the first time; then the first three
_generate_learning_resources(cl) ==
    LET listed(keys) ==
            FirstN([n \in 1..Len(keys) |-> resource_map[resource_key(keys[n])]], MaxResources)
        first(hits) ==
            listed(SelectSeq(hits, LAMBDA k :
                      \A j \in 1..Len(hits) :
                          resource_key(hits[j]) = resource_key(k) => Pos(hits, k) <= j))
    IN first(SelectSeq(ItemKeys(cl), LAMBDA k : ~cl[k].pass /\ resource_key(k) # ""))

\* checklists by what fails: in each section no key, its first or its last
\* key; responsive_design or not; two of the other technical keys or not
PassKeys(p, fails) ==
    LET at(places) ==
            CASE fails = "none" -> {}
              [] fails = "first" -> {params[Min(places)]}
              [] fails = "last" -> {params[CHOOSE i \in places : \A j \in places : j <= i]}
    IN at({i \in 1..Len(params) : params[i] \in KeysOf(p)})

ChecklistFailing(keys) ==
    [k \in Range(params) |-> [pass |-> k \notin keys, details |-> <<>>]]

ResourceChecklists ==
    { ChecklistFailing(PassKeys("about", a) \cup PassKeys("projects", p)
                       \cup PassKeys("skills", s) \cup PassKeys("contact", c) \cup r \cup t) :
        a \in {"none", "first", "last"}, p \in {"none", "first", "last"},
        s \in {"none", "first", "last"}, c \in {"none", "first", "last"},
        r \in { {}, {"responsive_design"} },
        t \in { {}, {"links_correct", "external_links_new_tab"} } }
    \cup { EmptyChecklist }

InitResources ==
    /\ doc = <<>>
    /\ url = <<>>
    /\ pc = "combine"
    /\ fetched = "page"
    /\ checklist \in ResourceChecklists
    /\ result = NoResult
    /\ status = 0
    /\ cache = NoResult
    /\ requests = 0
    /\ found = None
    /\ log = {}
    /\ ServicesIdle

\* final_result["learning_resources"] = _generate_learning_resources(checklist)
GenerateResources ==
    /\ pc = "combine"
    /\ pc' = "returned"
    /\ result' = [learning_resources |-> _generate_learning_resources(checklist)]
    /\ UNCHANGED <<doc, url, fetched, checklist, status, cache, requests, found, log, services>>

NextResources == GenerateResources

SpecResources == InitResources /\ [][NextResources]_vars

\* the category of a resource: the pass whose keys it belongs to, or the
\* key responsive_design alone
CategoryKeys(r) ==
    CASE r = "about_section" -> KeysOf("about")
      [] r = "projects_minimum" -> KeysOf("projects")
      [] r = "skills_highlighted" -> KeysOf("skills")
      [] r = "contact_section" -> KeysOf("contact")
      [] r = "responsive_design" -> {"responsive_design"}

\* where the first failed key of a category stands in the checklist; 0 if
\* none of its keys failed
FirstFailed(cl, r) ==
    First({i \in 1..Len(params) :
              params[i] \in DOMAIN cl /\ params[i] \in CategoryKeys(r) /\ ~cl[params[i]].pass})

\* C17: at most 3 resources, none twice; each is the template of a category
\* with a failed key; they stand in the order in which their categories
\* first fail along the checklist, and the first three such categories are
\* the ones returned; other failed keys add nothing and without a failed
\* key the list is empty.
C17_LearningResources ==
    pc = "returned" =>
        LET out == result.learning_resources
            Failing == {r \in DOMAIN resource_map : FirstFailed(checklist, r) # 0}
            Cat(n) == CHOOSE r \in DOMAIN resource_map : resource_map[r] = out[n]
        IN /\ Len(out) <= 3
           /\ \A m, n \in 1..Len(out) : m # n => out[m] # out[n]
           /\ \A n \in 1..Len(out) :
                 \E r \in Failing : out[n] = resource_map[r]
           /\ \A m, n \in 1..Len(out) :
                 m < n => FirstFailed(checklist, Cat(m)) < FirstFailed(checklist, Cat(n))
           /\ \A r \in Failing :
                 \/ \E n \in 1..Len(out) : out[n] = resource_map[r]
                 \/ /\ Len(out) = 3
                    /\ \A n \in 1..3 : FirstFailed(checklist, Cat(n)) < FirstFailed(checklist, r)
           /\ Failing = {} => out = <<>>

\* all five categories have a failed key, and so have unmapped keys: about,
\* projects and skills are returned
C17_FiveFailedWitness ==
    /\ pc = "returned"
    /\ \A r \in DOMAIN resource_map : FirstFailed(checklist, r) # 0
    /\ ~checklist["links_correct"].pass
    /\ result.learning_resources
          = << resource_map["about_section"], resource_map["projects_minimum"],
               resource_map["skills_highlighted"] >>

-----------------------------------------------------------------------------
(* PortfolioValidator._calculate_score and PortfolioScorer                 *)

\* the most project cards a validation result counts
MaxProjectCount == 5

\* the ten categories of a validation result, in the order of the dicts
categories ==
    << "basic_sections", "about_section", "projects_section", "skills_section",
       "contact_section", "links", "responsiveness", "url_professionalism",
       "design", "external_links" >>

\* the name under which the validator stores the predicate of a category
PredicateField ==
    [ basic_sections |-> "has_all_sections", about_section |-> "is_complete",
      projects_section |-> "is_complete", skills_section |-> "is_complete",
      contact_section |-> "is_complete", links |-> "is_complete",
      responsiveness |-> "is_responsive", url_professionalism |-> "is_professional",
      design |-> "is_complete", external_links |-> "is_complete" ]

\* a validation result: the predicate of each category under its field;
\* the projects are complete from two cards on
ValidationResults(holds, project_count) ==
    [c \in Range(categories) |->
        IF c = "projects_section"
        THEN [field |-> "is_complete", value |-> project_count >= 2,
              project_count |-> project_count]
        ELSE [field |-> PredicateField[c], value |-> c \in holds, project_count |-> 0]]

\* the sum of a sequence of numbers
RECURSIVE Sum(_)
Sum(ns) == IF ns = <<>> THEN 0 ELSE Head(ns) + Sum(Tail(ns))

\* weights of PortfolioValidator._calculate_score, in hundredths
weights ==
    [ basic_sections |-> 15, about_section |-> 10, projects_section |-> 20,
      skills_section |-> 10, contact_section |-> 10, links |-> 5,
      responsiveness |-> 10, url_professionalism |-> 5, design |-> 5,
      external_links |-> 5 ]

\* validation_results[key].get("is_complete", False)
GetIsComplete(entry) == IF entry.field = "is_complete" THEN entry.value ELSE FALSE

\* PortfolioValidator._calculate_score: round(score * 100, 2); the float sum
\* of the weights differs from the decimal one by less than the rounding
validator_score(results) ==
    Sum([i \in 1..Len(categories) |->
            IF GetIsComplete(results[categories[i]]) THEN weights[categories[i]] ELSE 0])

\* PortfolioScorer.criteria: weight and max_score of each criterion
criteria_weight ==
    [ basic_sections |-> 10, about_section |-> 10, projects_section |-> 20,
      skills_section |-> 10, contact_section |-> 10, links |-> 5,
      responsiveness |-> 10, url_professionalism |-> 5, design |-> 10,
      external_links |-> 10 ]

\* criteria[c]["check"](results): the whole weight if the predicate holds,
\* but for the projects 5 for each card up to 20
check(c, results) ==
    IF c = "projects_section"
    THEN (IF results[c].project_count * 5 < 20 THEN results[c].project_count * 5 ELSE 20)
    ELSE IF results[c].value THEN criteria_weight[c] ELSE 0

\* (total_score / total_weight) * 100 in double precision, for the totals
\* that occur (multiples of 5 up to 100): the whole part and the units in
\* the last place above it
Percentage(total_score) ==
    [whole |-> total_score, ulps |-> IF total_score = 55 THEN 1 ELSE 0]

\* generate_detailed_report: overall_score
overall_score(results) ==
    LET report(total_score, total_weight) ==
            [raw_score |-> total_score, max_score |-> total_weight,
             percentage |-> Percentage(total_score)]
    IN report(Sum([i \in 1..Len(categories) |-> check(categories[i], results)]),
              Sum([i \in 1..Len(categories) |-> criteria_weight[categories[i]]]))

NotScored == [score |-> -1]

InitValidation ==
    /\ validation \in
          { [results |-> ValidationResults(holds, n), score |-> -1, report |-> NotScored] :
              holds \in SUBSET (Range(categories) \ {"projects_section"}),
              n \in 0..MaxProjectCount }
    /\ ai = <<>>
    /\ batch = <<>>
    /\ gather = <<>>
    /\ doc = <<>>
    /\ url = <<>>
    /\ pc = "idle"
    /\ fetched = "none"
    /\ checklist = EmptyChecklist
    /\ result = NoResult
    /\ status = 0
    /\ cache = NoResult
    /\ requests = 0
    /\ found = None
    /\ log = {}
    /\ db = <<>>
    /\ calls = <<>>

\* validate_portfolio: "score": self._calculate_score(validation_results)
CalculateScore ==
    /\ validation.score = -1
    /\ validation' = [validation EXCEPT !.score = validator_score(validation.results)]
    /\ UNCHANGED <<engine, ai, batch, gather, db, calls>>

\* scorer.generate_detailed_report(validation_results, url)
GenerateReport ==
    /\ validation.report = NotScored
    /\ validation' = [validation EXCEPT !.report = overall_score(validation.results)]
    /\ UNCHANGED <<engine, ai, batch, gather, db, calls>>

NextValidation == CalculateScore \/ GenerateReport

SpecValidation == InitValidation /\ [][NextValidation]_vars

\* the categories whose completeness predicate is true in the results
Complete(results) == {c \in Range(categories) : results[c].value}

\* the sum of w over the categories in cs
WeightOf(w, cs) ==
    Sum([i \in 1..Len(categories) |-> IF categories[i] \in cs THEN w[categories[i]] ELSE 0])

\* C18: the ten weights sum to 100 and the weighted score is the sum of the
\* weights of exactly the categories whose completeness predicate is true:
\* 100 when all ten are, 0 when none is, and never a part of a weight.
C18_WeightedScore ==
    /\ validation.score # -1 =>
          /\ WeightOf(weights, Range(categories)) = 100
          /\ validation.score = WeightOf(weights, Complete(validation.results))
          /\ Complete(validation.results) = Range(categories) => validation.score = 100
          /\ Complete(validation.results) = {} => validation.score = 0
    /\ validation.report # NotScored =>
          /\ WeightOf(criteria_weight, Range(categories)) = 100
          /\ validation.report.percentage
                = [whole |-> WeightOf(criteria_weight, Complete(validation.results)),
                   ulps |-> 0]

-----------------------------------------------------------------------------
(* _find_project_cards, stage by stage                                     *)

\* the most fragments of one kind in a section
MaxStageFrags == 2

\* what a stage can find and the earlier stages cannot: a div with a card
\* class; a classless div with a heading; a grid of two figures with links;
\* a list item with a heading and a button; a list item with an image and a
\* link to a code host
ClassFrag == SmallCard(<< <<"card">> >>, << El("h3", 0, [text |-> <<"Shop">>]),
                                           El("p", 0, [text |-> <<T30>>]) >>)
StructureFrag == SmallCard(<<>>, << El("h3", 0, [text |-> <<"Blog">>]),
                                   El("p", 0, [text |-> <<T30>>]) >>)
GridFrag ==
    Under(El("section", 0, [cls |-> << <<"grid">> >>]),
          Repeat(Under(Node("figure", 0),
                       << El("a", 0, [href |-> <<"/", "shop">>, text |-> <<T60>>]) >>), 2))
HeadingFrag ==
    Under(Node("section", 0), << El("h3", 0, [text |-> <<"Game">>]),
                                 El("button", 0, [text |-> <<"live", " ", T30>>]) >>)
LinkFrag ==
    Under(Node("li", 0), << Node("img", 0),
                            El("a", 0, [href |-> GithubUrl, text |-> <<T30>>]) >>)

\* a projects section with some fragments of each kind
StageDocs ==
    { Under(El("section", 0, [id |-> <<"project", "s">>]),
            JoinAll(<<Repeat(LinkFrag, n5), Repeat(HeadingFrag, n4), Repeat(GridFrag, n3),
                      Repeat(StructureFrag, n2), Repeat(ClassFrag, n1)>>)) :
        n1 \in 0..MaxStageFrags, n2 \in 0..MaxStageFrags, n3 \in 0..1,
        n4 \in 0..MaxStageFrags, n5 \in 0..MaxStageFrags }

\* every stage runs, whatever was found before it
StageAlwaysRuns(cards) == TRUE

\* if len(cards) < 2: the test before each of the stages 2 to 5
StageRuns(cards) == Len(cards) < 2

\* the stage with the given number, on the cards found so far
StageCards(k, d, c, cards) ==
    CASE k = 1 -> CardsByClass(d, c, cards)
      [] k = 2 -> CardsByStructure(d, c, cards)
      [] k = 3 -> CardsByGrid(d, c, cards)
      [] k = 4 -> CardsByHeading(d, c, cards)
      [] k = 5 -> CardsByLink(d, c, cards)

InitStages ==
    /\ doc \in StageDocs
    /\ url = EngineUrls[1]
    /\ pc = 0
    /\ fetched = "none"
    /\ checklist = _initialize_checklist
    /\ result = NoResult
    /\ status = 0
    /\ cache = NoResult
    /\ requests = 0
    /\ found = <<>>
    /\ log = <<>>
    /\ ServicesIdle

\* the call: cards = [], and stage 1 runs on the projects section
FirstStage ==
    /\ pc = 0
    /\ LET ran(cards) ==
               /\ found' = cards
               /\ log' = <<[stage |-> 1, produced |-> Len(cards)]>>
       IN ran(StageCards(1, doc, _find_section(doc, section_keywords.projects), <<>>))
    /\ pc' = 1
    /\ UNCHANGED <<doc, url, fetched, checklist, result, status, cache, requests, services>>

\* stage k of 2..5: it runs if fewer than two cards were found so far
LaterStage(k) ==
    /\ pc = k - 1
    /\ IF StageRuns(found)
       THEN LET ran(cards) ==
                    /\ found' = cards
                    /\ log' = Append(log, [stage |-> k, produced |-> Len(cards) - Len(found)])
            IN ran(StageCards(k, doc, _find_section(doc, section_keywords.projects), found))
       ELSE UNCHANGED <<found, log>>
    /\ pc' = k
    /\ UNCHANGED <<doc, url, fetched, checklist, result, status, cache, requests, services>>

\* return cards[:10]
ReturnCards ==
    /\ pc = 5
    /\ found' = Limit(found)
    /\ pc' = 6
    /\ UNCHANGED <<doc, url, fetched, checklist, result, status, cache, requests, log, services>>

NextStages ==
    \/ FirstStage
    \/ \E k \in 2..5 : LaterStage(k)
    \/ ReturnCards

SpecStages == InitStages /\ [][NextStages]_vars

\* C19: a stage of 2..5 runs only if the stage just before it ran and
\* produced fewer than 2 cards; after a stage that produced 2 cards or more
\* no stage runs; and the call returns what the stages collected.
C19_StageGating ==
    /\ [](/\ \A i \in 2..Len(log) :
                /\ log[i].stage = log[i - 1].stage + 1
                /\ log[i - 1].produced < 2
          /\ \A i \in 1..Len(log) : log[i].produced >= 2 => i = Len(log)
          /\ pc = 6 =>
                found = _find_project_cards(doc, _find_section(doc, section_keywords.projects)))
    /\ [][\A k \in 2..5 :
            (pc' = k /\ log' # log) =>
                /\ log[Len(log)].stage = k - 1
                /\ log[Len(log)].produced < 2
                /\ log'[Len(log')].stage = k]_vars

\* all five stages ran: the first four found one card between them and the
\* fifth found another
C19_FiveStagesWitness ==
    /\ pc = 6
    /\ Len(log) = 5
    /\ log[4].produced = 1
    /\ log[5].produced >= 1

-----------------------------------------------------------------------------
(* _find_section on pages of headings                                      *)

\* the most fragments of a page of headings
MaxHeadings == 2

\* headings with and without a keyword, alone or in a container: an empty
\* heading, a heading that is a part of a keyword, headings that are or
\* hold a keyword, and one that holds none
HeadingPalette ==
    << << Node("h2", 0) >>,
       Under(Node("div", 0), << Node("h2", 0), El("p", 0, [text |-> <<T30>>]) >>),
       << El("h2", 0, [text |-> <<"Me">>]) >>,
       << El("h2", 0, [text |-> <<"About">>]) >>,
       Under(Node("div", 0),
             << El("h1", 0, [text |-> <<"All", " ", "about", " ", "Jane">>]),
                El("p", 0, [text |-> <<T60>>]) >>),
       << El("h3", 0, [text |-> <<"Skill", "s">>]) >>,
       << El("h2", 0, [text |-> <<"Jane", " ", "Doe">>]) >>,
       Under(Node("div", 0),
             << El("h2", 0, [text |-> <<"Hello">>]), El("p", 0, [text |-> <<T30>>]) >>) >>

HeadingDocs ==
    { JoinAll([i \in DOMAIN f |-> HeadingPalette[f[i]]]) :
        f \in UNION {[1..m -> 1..Len(HeadingPalette)] : m \in 0..MaxHeadings} }

InitHeadings ==
    /\ doc \in HeadingDocs
    /\ url = EngineUrls[1]
    /\ pc = "idle"
    /\ fetched = "none"
    /\ checklist = EmptyChecklist
    /\ result = NoResult
    /\ status = 0
    /\ cache = NoResult
    /\ requests = 0
    /\ found = [label |-> "none", node |-> None]
    /\ log = Idle
    /\ ServicesIdle

SpecHeadings == InitHeadings /\ [][NextLocate]_vars

\* some heading of the page has a text that is, or contains, a keyword
KeywordHeading(d, kws) ==
    \E h \in Tagged(d, 0, Headings) :
        \E i \in 1..Len(kws) : Contains(LowerStr(GetTextStrip(d, h)), kws[i])

\* C20: the heading strategy selects a heading or its container only for a
\* heading whose text is or contains a keyword of the label: on a page
\* where no heading holds a keyword (empty headings among them) and no
\* earlier strategy matches, the result is that of the later strategies.
C20_HeadingNeedsKeyword ==
    pc = "located" =>
        LET kws == section_keywords[found.label]
        IN (/\ \A k \in 1..3 : Strategy(k, doc, kws) = None
            /\ ~KeywordHeading(doc, kws))
           => found.node = IF Strategy(5, doc, kws) # None THEN Strategy(5, doc, kws)
                           ELSE Strategy(6, doc, kws)

\* the anchors whose href names a host other than that of the source URL
OtherHost(d, u) ==
    { a \in Tagged(d, 0, {"a"}) :
        /\ d[a].href # Absent
        /\ UrlNetloc(d[a].href) # <<>>
        /\ UrlHostname(d[a].href) # UrlHostname(u) }

\* C21: once the technical pass has run, external_links_new_tab passes iff
\* every anchor whose host differs from the host of the source URL has
\* target="_blank" (a page without such an anchor meets the requirement).
C21_ExternalLinksNewTab ==
    pc = "done" =>
        checklist["external_links_new_tab"].pass
            = (\A a \in OtherHost(doc, url) : doc[a].target = <<"_blank">>)

-----------------------------------------------------------------------------
(* _evaluate_about_section on pages with and without an about section      *)

\* how a page holds its about content: in <section id="about">, in a div
\* under the heading "About Me", or in a div that nothing marks as about
AboutKinds == {"id", "heading", "none"}

\* paragraphs of 30, 50, 51 and 60 characters
AboutParagraphs ==
    { <<>>,
      << El("p", 0, [text |-> <<T30>>]) >>,
      << El("p", 0, [text |-> <<T30, T15, "lorem">>]) >>,
      << El("p", 0, [text |-> <<T30, T15, "loremi">>]) >>,
      << El("p", 0, [text |-> <<T15>>]), El("p", 0, [text |-> <<T60>>]) >> }

ProfileImg == El("img", 0, [alt |-> <<"profile", " ", "photo">>, src |-> <<"me", ".", "jpg">>])
IconImg == El("img", 0, [src |-> <<"icon", ".", "png">>])
ShotImg == El("img", 0, [src |-> <<"project", "-", "screenshot", ".", "png">>])
LogoImg == El("img", 0, [alt |-> <<"logo">>, src |-> <<"logo", ".", "png">>])

\* images that score above the threshold, at it, and below it
AboutImages ==
    { <<>>, <<ProfileImg>>, <<IconImg>>, <<Node("img", 0)>>, <<ShotImg, IconImg>>,
      <<IconImg, ProfileImg>>, <<ShotImg>>, <<IconImg, LogoImg>> }

\* the about content in its container, then what the page holds elsewhere
AboutDoc(kind, paragraphs, imgs, outside) ==
    Join(CASE kind = "id" ->
                Under(El("section", 0, [id |-> <<"about">>]), paragraphs \o imgs)
           [] kind = "heading" ->
                Under(Node("div", 0),
                      <<El("h2", 0, [text |-> <<"About", " ", "Me">>])>> \o paragraphs \o imgs)
           [] kind = "none" -> Under(Node("div", 0), paragraphs \o imgs),
         outside)

AboutDocs ==
    { AboutDoc(kind, paragraphs, imgs, outside) :
        kind \in AboutKinds, paragraphs \in AboutParagraphs, imgs \in AboutImages,
        outside \in { <<>>, << El("p", 0, [text |-> <<T60>>]) >>, <<LogoImg>> } }

InitAbout ==
    /\ doc \in AboutDocs
    /\ url = EngineUrls[1]
    /\ pc = "about"
    /\ fetched = "none"
    /\ checklist = _initialize_checklist
    /\ result = NoResult
    /\ status = 0
    /\ cache = NoResult
    /\ requests = 0
    /\ found = None
    /\ log = {}
    /\ ServicesIdle

\* _evaluate_about_section on a fresh checklist
EvaluateAbout ==
    /\ pc = "about"
    /\ pc' = "done"
    /\ checklist' = _evaluate_about_section(doc, checklist)
    /\ UNCHANGED <<doc, url, fetched, result, status, cache, requests, found, log, services>>

NextAbout == EvaluateAbout

SpecAbout == InitAbout /\ [][NextAbout]_vars

\* some paragraph below c (the whole page when c is 0) has a text of more
\* than 50 characters
LongParagraph(d, c) == \E p \in Tagged(d, c, {"p"}) : StrLen(GetTextStrip(d, p)) > 50

\* C22: about_intro passes iff some paragraph with a text of more than 50
\* characters exists in the located about section or, when no about section
\* is located, anywhere in the page.
C22_AboutIntro ==
    pc = "done" =>
        LET intro(about_section) ==
                checklist["about_intro"].pass = LongParagraph(doc, about_section)
        IN intro(_find_section(doc, section_keywords.about))

\* the scores of the candidate images, in candidate order
CandidateScores(d, about_section) ==
    LET scores(imgs) == [i \in 1..Len(imgs) |-> photo_score(d, imgs[i])]
    IN scores(all_imgs(d, about_section))

\* the first candidate among those of the highest score
TopCandidate(d, about_section) ==
    LET top(imgs, scores) ==
            imgs[Min({i \in 1..Len(imgs) : \A k \in 1..Len(imgs) : scores[k] <= scores[i]})]
    IN top(all_imgs(d, about_section), CandidateScores(d, about_section))

\* C30: about_photo passes iff an about section is located and the page
\* holds at least one img element, whatever the candidates score; when some
\* candidate scores above the threshold the photo reported is the
\* highest-scoring candidate, the first of them in candidate order.
C30_PhotoWheneverAnImage ==
    pc = "done" =>
        LET photo(about_section) ==
                /\ checklist["about_photo"].pass
                      = (about_section # None /\ Tagged(doc, 0, {"img"}) # {})
                /\ checklist["about_photo"].pass
                   /\ (\E s \in Range(CandidateScores(doc, about_section)) : s > PhotoThreshold)
                   => checklist["about_photo"].details[1].s
                         = Preview(Get(doc[TopCandidate(doc, about_section)].src, <<>>), 80)
        IN photo(_find_section(doc, section_keywords.about))

\* a located section whose candidate images all score at or below the
\* threshold, and a photo accepted all the same
C30_AllBelowThresholdWitness ==
    /\ pc = "done"
    /\ checklist["about_photo"].pass
    /\ \A s \in Range(CandidateScores(doc, _find_section(doc, section_keywords.about))) :
          s <= PhotoThreshold

-----------------------------------------------------------------------------
(* CacheService: the tables grading_cache and shareable_links              *)

\* settings.cache_ttl_days
cache_ttl_days == 7

\* the clock counts half days
TicksPerDay == 2

\* the last tick of the clock
MaxClock == 17

\* timedelta.days: the whole days in a span of ticks
days(span) == span \div TicksPerDay


\* the URLs that are analysed
CacheUrls == Range(EngineUrls)

\* no row of grading_cache holds the URL; the None of a lookup that misses
NoEntry == <<>>

\* an empty database under the given settings
NewDb(enable_caching, enable_shareable_links) ==
    [ enable_caching |-> enable_caching,
      enable_shareable_links |-> enable_shareable_links,
      clock |-> 0,
      grading_cache |-> [u \in CacheUrls |-> NoEntry],
      shareable_links |-> <<>> ]

\* every row is taken for expired
AlwaysExpired(d, entry) == TRUE

\* age.days > settings.cache_ttl_days, for a row of grading_cache
Expired(d, entry) == days(d.clock - entry.created_at) > cache_ttl_days

\* GradingCache.created_at < cache_cutoff
BeforeCutoff(d, entry) == entry.created_at < d.clock - cache_ttl_days * TicksPerDay

\* a lookup that always misses
never_cached(d, portfolio_url, failed) == [returned |-> NoEntry, db |-> d]

\* get_cached_result: what it returns (None for a miss) and the database it
\* leaves; failed is an exception of the session, caught and logged
get_cached_result(d, portfolio_url, failed) ==
    LET lookup(cache_entry) ==
            IF ~d.enable_caching \/ failed \/ cache_entry = NoEntry
            THEN [returned |-> NoEntry, db |-> d]
            ELSE IF Expired(d, cache_entry)
            THEN [returned |-> NoEntry,
                  db |-> [d EXCEPT !.grading_cache[portfolio_url] = NoEntry]]
            ELSE [returned |-> cache_entry.result_data,
                  db |-> [d EXCEPT !.grading_cache[portfolio_url].access_count = @ + 1]]
    IN lookup(d.grading_cache[portfolio_url])

\* the commit of set_cached_result that follows its select: an update of the
\* row found (it fails when the row is gone since the select), else an
\* insert (the unique index on portfolio_url rejects it when the row has
\* come to exist since). json.dumps keeps the result as it is at this
\* moment; json.loads gives it back.
set_cached_result(d, portfolio_url, result_data, existing, failed) ==
    IF ~d.enable_caching \/ failed \/ existing # (d.grading_cache[portfolio_url] # NoEntry)
    THEN [returned |-> FALSE, db |-> d]
    ELSE [returned |-> TRUE,
          db |-> [d EXCEPT !.grading_cache[portfolio_url] =
                     [result_data |-> result_data, created_at |-> d.clock,
                      access_count |-> IF existing THEN @.access_count ELSE 0]]]

\* delete_cached_result
delete_cached_result(d, portfolio_url) == [d EXCEPT !.grading_cache[portfolio_url] = NoEntry]

\* cleanup_expired, on the grading_cache table
cleanup_expired(d) ==
    [d EXCEPT !.grading_cache =
        [u \in CacheUrls |-> IF @[u] # NoEntry /\ BeforeCutoff(d, @[u]) THEN NoEntry ELSE @[u]]]

\* create_shareable_link: a new row under a share id of its own (the hash of
\* the URL and the time of the call), or None when the session fails
create_shareable_link(d, portfolio_url, result_data, failed) ==
    IF failed THEN [returned |-> None, db |-> d]
    ELSE [returned |-> Len(d.shareable_links) + 1,
          db |-> [d EXCEPT !.shareable_links =
                     Append(@, [share_id |-> Len(@) + 1, portfolio_url |-> portfolio_url,
                                result_data |-> result_data])]]

-----------------------------------------------------------------------------
(* The cache service called directly, as time passes                       *)

\* the most lookups one entry serves
MaxAccesses == 1

\* the results that are stored
StoredResults == { final_result(_initialize_checklist) }

InitExpiry ==
    /\ db = NewDb(TRUE, TRUE)
    /\ calls = <<>>
    /\ ai = <<>> /\ batch = <<>> /\ gather = <<>> /\ validation = <<>>
    /\ doc = <<>>
    /\ url = EngineUrls[1]
    /\ pc = "idle"
    /\ fetched = "none"
    /\ checklist = EmptyChecklist
    /\ result = NoResult
    /\ status = 0
    /\ cache = NoResult
    /\ requests = 0
    /\ found = None
    /\ log = {}

\* time passes
Elapse(ticks) ==
    /\ db.clock + ticks <= MaxClock
    /\ db' = [db EXCEPT !.clock = @ + ticks]
    /\ UNCHANGED <<engine, ai, batch, gather, validation, calls>>

\* cache_service.set_cached_result(u, r); calls keeps the last call
SetCached(u, r) ==
    /\ db' = set_cached_result(db, u, r, db.grading_cache[u] # NoEntry, FALSE).db
    /\ calls' = <<[op |-> "set", url |-> u, age |-> 0, hit |-> FALSE]>>
    /\ UNCHANGED <<engine, ai, batch, gather, validation>>

\* cache_service.get_cached_result(u)
GetCached(u) ==
    /\ db.grading_cache[u] # NoEntry => db.grading_cache[u].access_count < MaxAccesses
    /\ db' = get_cached_result(db, u, FALSE).db
    /\ calls' = <<[op |-> "get", url |-> u,
                   age |-> IF db.grading_cache[u] = NoEntry THEN 0
                           ELSE db.clock - db.grading_cache[u].created_at,
                   hit |-> get_cached_result(db, u, FALSE).returned # NoEntry]>>
    /\ UNCHANGED <<engine, ai, batch, gather, validation>>

\* cache_service.cleanup_expired()
Cleanup ==
    /\ db' = cleanup_expired(db)
    /\ calls' = <<[op |-> "cleanup", url |-> <<>>, age |-> 0, hit |-> FALSE]>>
    /\ UNCHANGED <<engine, ai, batch, gather, validation>>

NextExpiry ==
    \/ Elapse(1)
    \/ \E u \in CacheUrls, r \in StoredResults : SetCached(u, r)
    \/ \E u \in CacheUrls : GetCached(u)
    \/ Cleanup

SpecExpiry == InitExpiry /\ [][NextExpiry]_vars

\* C24: get_cached_result never returns an entry older than cache_ttl_days
\* days, an entry past that age is a miss and is deleted by the lookup, and
\* the entries a lookup treats as expired are exactly those cleanup_expired
\* deletes.
C24_CacheExpiry ==
    /\ \A i \in 1..Len(calls) :
          calls[i].op = "get" =>
              /\ calls[i].hit => calls[i].age <= cache_ttl_days * TicksPerDay
              /\ calls[i].age > cache_ttl_days * TicksPerDay =>
                    ~calls[i].hit /\ db.grading_cache[calls[i].url] = NoEntry
    /\ \A u \in CacheUrls :
          db.grading_cache[u] # NoEntry =>
              (Expired(db, db.grading_cache[u]) <=> BeforeCutoff(db, db.grading_cache[u]))

-----------------------------------------------------------------------------
(* PortfolioAnalyzer.analyze calls on one cache, each call advancing from   *)
(* one await to the next                                                   *)

\* how many analyze calls a client makes, one after the other
MaxAnalyzeCalls == 3

\* what the site serves: the page may change from one fetch to the next
SitePages == << <<>>, AboutFull >>

\* an analyze call at its start. existing is whether its set_cached_result
\* selected a row; fetches counts its fetches, hit is whether its lookup
\* returned a row and dropped whether it deleted one, stored is what
\* set_cached_result returned, raised whether a session of the cache
\* service raised under the call
NewCall(portfolio_url, force_refresh) ==
    [ url |-> portfolio_url, force_refresh |-> force_refresh, pc |-> "lookup",
      page |-> 0, existing |-> FALSE, result |-> NoResult, fetches |-> 0,
      hit |-> FALSE, dropped |-> FALSE, stored |-> FALSE, raised |-> FALSE ]

\* final_result["share_id"] = share_id; final_result["share_url"] = ...
WithShare(final, share_id) ==
    [share_id |-> share_id, share_url |-> <<"/share/", share_id>>] @@ final

\* cached_result["from_cache"] = True
FromCache(cached_result) == [cached_result EXCEPT !.from_cache = TRUE]

\* a result that carries share fields before any link is made
shared_first(final) == WithShare(final, None)

\* the result as set_cached_result gets it: before the share fields are set
cached_copy(final) == final

\* the calls that have not returned
Running == {i \in 1..Len(calls) : calls[i].pc # "returned"}

InitAnalyze ==
    /\ db \in { NewDb(enable_caching, enable_shareable_links) :
                  enable_caching \in BOOLEAN, enable_shareable_links \in BOOLEAN }
    /\ calls = <<>>
    /\ ai = <<>> /\ batch = <<>> /\ gather = <<>> /\ validation = <<>>
    /\ doc = <<>>
    /\ url = EngineUrls[1]
    /\ pc = "idle"
    /\ fetched = "none"
    /\ checklist = EmptyChecklist
    /\ result = NoResult
    /\ status = 0
    /\ cache = NoResult
    /\ requests = 0
    /\ found = None
    /\ log = {}

\* POST /grade once the call before it has returned: force_refresh deletes
\* the cache entry, then analyze starts
GradeUrl(u, force_refresh) ==
    /\ Running = {}
    /\ requests < MaxAnalyzeCalls
    /\ requests' = requests + 1
    /\ db' = IF force_refresh THEN delete_cached_result(db, u) ELSE db
    /\ calls' = <<NewCall(u, force_refresh)>>
    /\ UNCHANGED <<doc, url, pc, fetched, checklist, result, status, cache, found, log,
                   ai, batch, gather, validation>>

\* the cache check that opens analyze
Lookup(i, failed) ==
    /\ calls[i].pc = "lookup"
    /\ IF calls[i].force_refresh
       THEN /\ calls' = [calls EXCEPT ![i].pc = "fetch"]
            /\ db' = db
       ELSE LET done(got) ==
                    /\ db' = got.db
                    /\ calls' = [calls EXCEPT
                          ![i].dropped = got.db.grading_cache[calls[i].url]
                                            # db.grading_cache[calls[i].url]
                                         /\ got.returned = NoEntry,
                          ![i].hit = got.returned # NoEntry,
                          ![i].raised = failed /\ db.enable_caching,
                          ![i].result = IF got.returned # NoEntry
                                        THEN FromCache(got.returned) ELSE @,
                          ![i].pc = IF got.returned # NoEntry THEN "returned" ELSE "fetch"]
            IN done(get_cached_result(db, calls[i].url, failed))
    /\ UNCHANGED <<engine, ai, batch, gather, validation>>

\* _fetch_portfolio and the test `if not html_content`
FetchPage(i, outcome, page) ==
    /\ calls[i].pc = "fetch"
    /\ calls' = [calls EXCEPT
          ![i].fetches = @ + 1,
          ![i].page = IF outcome = "page" THEN page ELSE 0,
          ![i].result = IF outcome = "page" THEN @
                        ELSE _error_result("Failed to fetch portfolio content"),
          ![i].pc = IF outcome = "page" THEN "gather" ELSE "returned"]
    /\ UNCHANGED <<engine, ai, batch, gather, validation, db>>

\* the gathered analyses return and final_result is put together
GatherResults(i) ==
    /\ calls[i].pc = "gather"
    /\ calls' = [calls EXCEPT
          ![i].result = final_result(_run_rubric_analysis(SitePages[calls[i].page],
                                                          calls[i].url)),
          ![i].pc = IF db.enable_caching THEN "select"
                    ELSE IF db.enable_shareable_links THEN "link" ELSE "returned"]
    /\ UNCHANGED <<engine, ai, batch, gather, validation, db>>

\* set_cached_result: the select of the row of the URL
SelectRow(i) ==
    /\ calls[i].pc = "select"
    /\ calls' = [calls EXCEPT ![i].existing = db.grading_cache[calls[i].url] # NoEntry,
                              ![i].pc = "commit"]
    /\ UNCHANGED <<engine, ai, batch, gather, validation, db>>

\* set_cached_result: the commit
CommitRow(i, failed) ==
    /\ calls[i].pc = "commit"
    /\ LET done(set) ==
               /\ db' = set.db
               /\ calls' = [calls EXCEPT
                     ![i].stored = set.returned,
                     ![i].raised = @ \/ ~set.returned,
                     ![i].pc = IF db.enable_shareable_links THEN "link" ELSE "returned"]
       IN done(set_cached_result(db, calls[i].url, cached_copy(calls[i].result),
                                 calls[i].existing, failed))
    /\ UNCHANGED <<engine, ai, batch, gather, validation>>

\* create_shareable_link, and the share fields of the result
CreateLink(i, failed) ==
    /\ calls[i].pc = "link"
    /\ LET done(link) ==
               /\ db' = link.db
               /\ calls' = [calls EXCEPT ![i].result = WithShare(@, link.returned),
                                         ![i].raised = @ \/ failed,
                                         ![i].pc = "returned"]
       IN done(create_shareable_link(db, calls[i].url, calls[i].result, failed))
    /\ UNCHANGED <<engine, ai, batch, gather, validation>>

\* the steps of the calls under way
CallSteps ==
    \/ \E i \in 1..Len(calls), failed \in BOOLEAN : Lookup(i, failed)
    \/ \E i \in 1..Len(calls), outcome \in FetchOutcomes, page \in 1..Len(SitePages) :
          FetchPage(i, outcome, page)
    \/ \E i \in 1..Len(calls) : GatherResults(i)
    \/ \E i \in 1..Len(calls) : SelectRow(i)
    \/ \E i \in 1..Len(calls), failed \in BOOLEAN : CommitRow(i, failed)
    \/ \E i \in 1..Len(calls), failed \in BOOLEAN : CreateLink(i, failed)

NextAnalyze ==
    \/ \E u \in CacheUrls, force_refresh \in BOOLEAN : GradeUrl(u, force_refresh)
    \/ CallSteps
    \/ Elapse((cache_ttl_days + 1) * TicksPerDay)

SpecAnalyze == InitAnalyze /\ [][NextAnalyze]_vars

\* the age in ticks of the row of a URL
Age(d, u) == d.clock - d.grading_cache[u].created_at

\* call i takes the step that leaves position p
Leaves(i, p) == i \in 1..Len(calls) /\ calls[i].pc = p /\ Len(calls') >= i /\ calls'[i].pc # p

\* with caching enabled, a lookup that finds a row not older than
\* cache_ttl_days days returns, without a fetch, the stored result with
\* from_cache = true
ServedFromCache(i) ==
    (/\ Leaves(i, "lookup") /\ ~calls[i].force_refresh /\ ~calls'[i].raised
     /\ db.enable_caching
     /\ db.grading_cache[calls[i].url] # NoEntry
     /\ Age(db, calls[i].url) <= cache_ttl_days * TicksPerDay)
    => /\ calls'[i].pc = "returned"
       /\ calls'[i].fetches = 0
       /\ calls'[i].result.from_cache
       /\ calls'[i].result.checklist = db.grading_cache[calls[i].url].result_data.checklist
       /\ calls'[i].result.score = db.grading_cache[calls[i].url].result_data.score

\* a call with force_refresh does not touch the cache before its fetch
NeverReads(i) ==
    (Leaves(i, "lookup") /\ calls[i].force_refresh)
    => db' = db /\ calls'[i].pc = "fetch" /\ calls'[i].result = calls[i].result

\* the commit of a successful analysis puts its result in the row of the URL
ReplacesEntry(i) ==
    Leaves(i, "commit")
    => /\ calls'[i].stored \/ calls'[i].raised
       /\ calls'[i].stored =>
             /\ db'.grading_cache[calls[i].url].result_data = calls[i].result
             /\ db'.grading_cache[calls[i].url].created_at = db.clock

Successful(r) ==
    /\ ~r.error /\ ~r.from_cache
    /\ DOMAIN r.checklist = Range(params)
    /\ r.score = _calculate_score(r.checklist)

\* the rows of both tables hold results of successful, fresh analyses
OnlySuccessfulStored ==
    /\ \A u \in CacheUrls :
          db.grading_cache[u] # NoEntry => Successful(db.grading_cache[u].result_data)
    /\ \A k \in 1..Len(db.shareable_links) : Successful(db.shareable_links[k].result_data)

\* the step in which a call returns an error result changes no table
ErrorStepWritesNothing(i) ==
    (/\ i \in 1..Len(calls) /\ Len(calls') >= i
     /\ calls[i].pc # "returned" /\ calls'[i].pc = "returned" /\ calls'[i].result.error)
    => /\ db'.grading_cache = db.grading_cache
       /\ db'.shareable_links = db.shareable_links

\* a call that returned an error result stored nothing and made no link
ErrorCallStoredNothing(i) ==
    (calls[i].pc = "returned" /\ calls[i].result.error)
    => ~calls[i].stored /\ "share_id" \notin DOMAIN calls[i].result

\* a lookup changes at most the row of its URL: it counts an access of the
\* row it returns, or deletes the row when it is 8 days old or older
LookupDropsOnlyExpired(i) ==
    Leaves(i, "lookup") =>
       /\ \A u \in CacheUrls \ {calls[i].url} : db'.grading_cache[u] = db.grading_cache[u]
       /\ db'.shareable_links = db.shareable_links
       /\ calls'[i].dropped <=>
             /\ db.grading_cache[calls[i].url] # NoEntry
             /\ db'.grading_cache[calls[i].url] = NoEntry
       /\ calls'[i].dropped =>
             Age(db, calls[i].url) >= (cache_ttl_days + 1) * TicksPerDay
       /\ (~calls'[i].dropped /\ ~calls'[i].hit) =>
             db'.grading_cache = db.grading_cache

\* C28 as stated: the tables hold only results of successful analyses, and
\* an analyze call that returns an error result writes no cache entry,
\* makes no share link and leaves the cache entry of its URL as it was.
C28_ErrorLeavesEntryUnchanged ==
    /\ [](OnlySuccessfulStored
          /\ \A i \in 1..Len(calls) :
                /\ ErrorCallStoredNothing(i)
                /\ (calls[i].pc = "returned" /\ calls[i].result.error) => ~calls[i].dropped)
    /\ [][\A i \in 1..MaxAnalyzeCalls : ErrorStepWritesNothing(i)]_vars

\* C28, amended: the tables hold only results of successful analyses, and
\* an analyze call that returns an error result writes no cache entry and
\* makes no share link; the one change it can make is that its opening
\* lookup deletes the entry of its URL when that entry has expired.
C28_ErrorWritesNothing ==
    /\ [](OnlySuccessfulStored /\ \A i \in 1..Len(calls) : ErrorCallStoredNothing(i))
    /\ [][\A i \in 1..MaxAnalyzeCalls :
             ErrorStepWritesNothing(i) /\ LookupDropsOnlyExpired(i)]_vars

\* a call whose lookup raised and whose fetch failed has returned an error
\* result, and the entry of its URL is still there
C28_FailedCallEntryKeptWitness ==
    /\ Len(calls) = 1 /\ calls[1].pc = "returned" /\ calls[1].result.error
    /\ ~calls[1].force_refresh /\ calls[1].raised /\ ~calls[1].dropped
    /\ db.grading_cache[calls[1].url] # NoEntry
    /\ db.shareable_links # <<>>

\* the fields of a result
HasShare(r) == "share_id" \in DOMAIN r /\ "share_url" \in DOMAIN r

NoShare(r) == "share_id" \notin DOMAIN r /\ "share_url" \notin DOMAIN r

\* C29: the cache entry is written before the shareable link is made: no
\* entry carries share fields, a call about to make its link has stored its
\* result already, a fresh result carries share_id and share_url when
\* shareable links are enabled, and a result served from the cache carries
\* neither.
C29_ShareFieldsOnlyWhenFresh ==
    /\ \A u \in CacheUrls :
          db.grading_cache[u] # NoEntry => NoShare(db.grading_cache[u].result_data)
    /\ \A i \in 1..Len(calls) :
          /\ (calls[i].pc = "link" /\ calls[i].stored) =>
                /\ NoShare(calls[i].result)
                /\ db.grading_cache[calls[i].url] # NoEntry
                /\ db.grading_cache[calls[i].url].result_data = calls[i].result
          /\ (calls[i].pc = "returned" /\ ~calls[i].result.error /\ ~calls[i].hit) =>
                /\ ~calls[i].result.from_cache
                /\ db.enable_shareable_links <=> HasShare(calls[i].result)
                /\ ~db.enable_shareable_links => NoShare(calls[i].result)
                /\ (HasShare(calls[i].result) /\ calls[i].result.share_id # None) =>
                      /\ calls[i].result.share_id \in 1..Len(db.shareable_links)
                      /\ db.shareable_links[calls[i].result.share_id].portfolio_url
                            = calls[i].url
          /\ (calls[i].pc = "returned" /\ calls[i].hit) =>
                calls[i].result.from_cache /\ NoShare(calls[i].result)

\* links are enabled, a fresh result of the URL got its link, and the call
\* now returned is served from the cache, without share fields
C29_CachedWithoutShareWitness ==
    /\ db.enable_shareable_links
    /\ Len(calls) = 1 /\ calls[1].pc = "returned" /\ calls[1].hit
    /\ NoShare(calls[1].result)
    /\ \E k \in 1..Len(db.shareable_links) :
          /\ db.shareable_links[k].portfolio_url = calls[1].url
          /\ db.shareable_links[k].result_data = db.grading_cache[calls[1].url].result_data

-----------------------------------------------------------------------------
(* POST /batch-grade: the items of one batch analysed on one cache         *)

\* the most items of a batch; it stays below max_concurrent_analyses, so
\* that no item waits for the semaphore
MaxBatchItems == 2

\* the batches: up to MaxBatchItems URLs, a URL possibly more than once
Batches == UNION { [1..n -> CacheUrls] : n \in 1..MaxBatchItems }

InitShared ==
    /\ db \in { NewDb(TRUE, enable_shareable_links) : enable_shareable_links \in BOOLEAN }
    /\ calls = <<>>
    /\ ai = <<>> /\ batch = <<>> /\ gather = <<>> /\ validation = <<>>
    /\ doc = <<>>
    /\ url = EngineUrls[1]
    /\ pc = "idle"
    /\ fetched = "none"
    /\ checklist = EmptyChecklist
    /\ result = NoResult
    /\ status = 0
    /\ cache = NoResult
    /\ requests = 0
    /\ found = None
    /\ log = {}

\* tasks = [analyze_one(item) for item in submission.portfolios]: every
\* item enters the semaphore and calls analyzer.analyze(item.portfolio_url)
SubmitBatch(items) ==
    /\ requests = 0
    /\ requests' = 1
    /\ calls' = [i \in 1..Len(items) |-> NewCall(items[i], FALSE)]
    /\ UNCHANGED <<doc, url, pc, fetched, checklist, result, status, cache, found, log,
                   ai, batch, gather, validation, db>>

NextShared ==
    \/ \E items \in Batches : SubmitBatch(items)
    \/ CallSteps

SpecShared == InitShared /\ [][NextShared]_vars

\* C26: the items of a batch share no mutable state: no item reads a cache
\* row that another item of the batch wrote, and each item returns what it
\* returns when analysed alone on the same cache, a fresh result of its own
\* fetch.
C26_BatchItemsIndependent ==
    \A i \in 1..Len(calls) :
        /\ ~calls[i].hit /\ ~calls[i].existing
        /\ calls[i].pc = "returned" => calls[i].fetches = 1 /\ ~calls[i].result.from_cache

-----------------------------------------------------------------------------
(* evaluate on pages whose content lies inside or outside marked sections  *)

\* a name, a photo and an introduction in a container that nothing marks
LooseAbout ==
    Under(Node("div", 0),
          << El("h1", 0, [text |-> <<"Jane", " ", "Doe">>]), ProfileImg,
             El("p", 0, [text |-> <<T60>>]) >>)

\* three complete cards in a container that nothing marks
LooseCards ==
    Under(Node("div", 0),
          Repeat(Card(<<"card">>, <<T30, " ", "react", " ", T30>>, TRUE,
                      <<GithubUrl, VercelUrl>>), 3))

\* a list with an icon in a container that nothing marks
LooseList ==
    Under(Node("div", 0),
          << Node("svg", 0),
             Node("ul", 0), El("li", 0, [text |-> <<"React">>]) >>)

DependentDocs ==
    { JoinAll(<<a, p, s>>) :
        a \in {<<>>, AboutFull, AboutHeading, LooseAbout},
        p \in {<<>>, ProjectsFull, ProjectsMixed, ProjectsBare, LooseCards},
        s \in {<<>>, SkillsSpans, SkillsBare, LooseList} }

InitDependent ==
    /\ doc \in DependentDocs
    /\ url = EngineUrls[1]
    /\ pc = "about"
    /\ fetched = "none"
    /\ checklist = _initialize_checklist
    /\ result = NoResult
    /\ status = 0
    /\ cache = NoResult
    /\ requests = 0
    /\ found = <<1, 1>>
    /\ log = Idle
    /\ ServicesIdle

NextDependent ==
    \/ AboutPass
    \/ ProjectsPass
    \/ SkillsPass
    \/ ContactPass
    \/ TechnicalPass

SpecDependent == InitDependent /\ [][NextDependent]_vars

\* projects_minimum .. projects_tech_stack
ProjectsDependentKeys == Range(SubSeq(params, 7, 14))

\* C27: in the checklist that evaluate returns, about_name, about_photo,
\* about_intro and about_professional_photo pass only if about_section
\* passes, every projects_* key passes only if projects_section passes,
\* skills_highlighted passes only if skills_section passes,
\* about_professional_photo passes only if about_photo passes, and
\* projects_minimum passes only if projects_samples passes.
C27_DependentKeysImplySection ==
    pc = "return" =>
        /\ \A k \in {"about_name", "about_photo", "about_intro", "about_professional_photo"} :
              checklist[k].pass => checklist["about_section"].pass
        /\ \A k \in ProjectsDependentKeys : checklist[k].pass => checklist["projects_section"].pass
        /\ checklist["skills_highlighted"].pass => checklist["skills_section"].pass
        /\ checklist["about_professional_photo"].pass => checklist["about_photo"].pass
        /\ checklist["projects_minimum"].pass => checklist["projects_samples"].pass

\* evaluate returns a checklist in which a dependent key of every section
\* passes
C27_AllSectionsWitness ==
    /\ pc = "return"
    /\ checklist["about_professional_photo"].pass
    /\ checklist["about_name"].pass
    /\ checklist["projects_minimum"].pass
    /\ checklist["skills_highlighted"].pass

-----------------------------------------------------------------------------
(* PortfolioValidator._check_basic_sections over PortfolioPatternAnalyzer  *)

\* how many documents one validator checks
MaxChecks == 2

\* PortfolioPatternAnalyzer.__init__: the umbrella terms of each section,
\* of which the model keeps those that can occur in the documents below
umbrella_sections ==
    [ about |->
        [ids |-> {<<"about">>, <<"about", "-", "me">>, <<"bio">>, <<"profile">>},
         classes |-> {<<"about">>, <<"about", "-", "section">>, <<"bio">>, <<"profile">>},
         headings |-> {<<"about">>, <<"about", " ", "me">>, <<"welcome">>, <<"profile">>}],
      intro |->
        [ids |-> {<<"home">>, <<"intro">>, <<"hero">>, <<"main">>, <<"header">>},
         classes |-> {<<"home">>, <<"intro">>, <<"hero">>, <<"main">>},
         headings |-> {<<"welcome">>, <<"hello">>, <<"hi">>}],
      skills |->
        [ids |-> {<<"skill", "s">>, <<"tech", "-", "stack">>, <<"expertise">>, <<"tools">>},
         classes |-> {<<"skill", "s">>, <<"skill", "-", "section">>, <<"tech", "-", "stack">>,
                      <<"skill", "-", "container">>},
         headings |-> {<<"skill", "s">>, <<"my", " ", "skill", "s">>, <<"tech", " ", "stack">>}],
      projects |->
        [ids |-> {<<"project", "s">>, <<"portfolio">>, <<"work">>, <<"my", "-", "work">>},
         classes |-> {<<"project", "s">>, <<"project", "-", "section">>, <<"portfolio">>,
                      <<"work">>, <<"my", "-", "work">>, <<"project", "-", "container">>},
         headings |-> {<<"project", "s">>, <<"my", " ", "project", "s">>, <<"portfolio">>,
                       <<"work">>}],
      contact |->
        [ids |-> {<<"contact">>, <<"get", "-", "in", "-", "touch">>, <<"connect">>},
         classes |-> {<<"contact">>, <<"contact", "-", "section">>, <<"contact", "-", "card">>},
         headings |-> {<<"contact">>, <<"contact", " ", "me">>, <<"get", " ", "in", " ", "touch">>}] ]

\* content_metrics['required_sections'] and required_sections of
\* _check_basic_sections
required_sections == {"about", "skills", "projects", "contact"}

\* the analyzer as __init__ leaves it: no detailed pattern collected
NewAnalyzer == [section_patterns |-> [ids |-> {}, classes |-> {}]]

\* whether one section is found: by id, else by class, else by a heading
\* whose text matches and which has a section, div or article above it
UmbrellaFound(d, patterns) ==
    \/ \E j \in 1..Len(d) : IdSearchI(d[j], patterns.ids)
    \/ \E j \in 1..Len(d) : ClassSearchI(d[j], patterns.classes)
    \/ \E k \in patterns.headings :
          LET hs == {h \in Tagged(d, 0, Headings) : SearchI(d[h].text, k)}
          IN hs # {} /\ FindParent(d, Min(hs), {"section", "div", "article"}) # None

\* the keys of the dict _find_umbrella_sections returns
_find_umbrella_sections(d) ==
    {section_name \in DOMAIN umbrella_sections :
        UmbrellaFound(d, umbrella_sections[section_name])}

\* the fallback: the ids and classes of the section, div and article elements
\* are added to section_patterns
_analyze_section_patterns(d, analyzer) ==
    LET containers == Tagged(d, 0, {"section", "div", "article"})
    IN [analyzer EXCEPT
          !.section_patterns.ids = @ \cup {d[j].id : j \in {c \in containers : d[c].id # Absent}},
          !.section_patterns.classes = @ \cup UNION {Range(d[j].cls) : j \in containers}]

\* the dict of the analyzer's attributes, sets turned into lists
get_patterns(analyzer) ==
    [umbrella_sections |-> umbrella_sections,
     section_patterns |-> analyzer.section_patterns]

\* the returned patterns and the analyzer after the call; section_coverage
\* counts the required sections among the found ones, out of four
analyze_portfolio(d, analyzer) ==
    LET analysed(sections, after) ==
            [patterns |->
                [section_coverage |-> Cardinality(sections \cap required_sections)]
                @@ get_patterns(after),
             analyzer |-> after]
        second_pass(sections) ==
            analysed(sections,
                     IF sections = {} THEN _analyze_section_patterns(d, analyzer)
                     ELSE analyzer)
    IN second_pass(_find_umbrella_sections(d))

\* the lists of the result are kept as sets
_check_basic_sections(d, analyzer) ==
    LET checked(found_sections) ==
            [has_all_sections |-> required_sections \subseteq found_sections,
             missing_sections |-> required_sections \ found_sections,
             found_sections |-> found_sections]
    IN checked(DOMAIN analyze_portfolio(d, analyzer).patterns.umbrella_sections)

SectionDocs ==
    { JoinAll(<<a, p, s, c>>) :
        a \in {<<>>, AboutFull, AboutHeading},
        p \in {<<>>, ProjectsFull, ProjectsBare, LooseCards},
        s \in {<<>>, SkillsSpans, SkillsBare},
        c \in {<<>>, ContactFull} }

InitSections ==
    /\ doc = <<>>
    /\ url = EngineUrls[1]
    /\ pc = "idle"
    /\ fetched = "none"
    /\ checklist = EmptyChecklist
    /\ result = NoResult
    /\ status = 0
    /\ cache = NoResult
    /\ requests = 0
    /\ found = None
    /\ log = {}
    /\ ai = <<>> /\ batch = <<>> /\ gather = <<>> /\ db = <<>> /\ calls = <<>>
    /\ validation = [analyzer |-> NewAnalyzer, basic_sections |-> <<>>]

\* "basic_sections": self._check_basic_sections(soup) on the next document
CheckBasicSections(d) ==
    /\ requests < MaxChecks
    /\ requests' = requests + 1
    /\ doc' = d
    /\ validation' = [analyzer |-> analyze_portfolio(d, validation.analyzer).analyzer,
                      basic_sections |-> _check_basic_sections(d, validation.analyzer)]
    /\ UNCHANGED <<url, pc, fetched, checklist, result, status, cache, found, log,
                   ai, batch, gather, db, calls>>

NextSections == \E d \in SectionDocs : CheckBasicSections(d)

SpecSections == InitSections /\ [][NextSections]_vars

\* C25: once a document has been checked, has_all_sections is true iff
\* about, skills, projects and contact are all found in that document, and
\* missing_sections holds exactly the required sections not found in it.
C25_BasicSections ==
    requests > 0 =>
        /\ validation.basic_sections.has_all_sections
              = (required_sections \subseteq _find_umbrella_sections(doc))
        /\ validation.basic_sections.missing_sections
              = required_sections \ _find_umbrella_sections(doc)

====
